---------------------------- MODULE Spec2Model ----------------------------
(***************************************************************************)
(* A model of the C-to-English compiler: the tokenizer (src/src/utils.c),  *)
(* the recursive-descent parser (src/src/parser.c), the scope checker      *)
(* (src/src/semantic.c with the symbol table of src/unnamed/part_001) and  *)
(* the driver (src/src/main.c).                                            *)
(*                                                                         *)
(* C strings are TLA+ strings; a character is a string of length one and   *)
(* the character at the C index i of s is SubSeq(s, i + 1, i + 1).         *)
(***************************************************************************)
EXTENDS Integers, Sequences, FiniteSets, TLC

VARIABLES
    mode,       \* which component the behaviour exercises
    lexer,      \* the Lexer of tokenize: source, current, line, column, length
    list,       \* the TokenList tokenize builds
    lpc,        \* where tokenize is: "skip", "scan", "stuck" or "done"
    parser,     \* the Parser of parse: tokens, current, count, had_error
    program,    \* the functions added to the Program node so far
    ppc,        \* where parse is: "loop", "hung", "crashed" or "done"
    tree,       \* what parse returned
    analyzer,   \* the SemanticAnalyzer of the check
    cnode,      \* the node the latest step of the check was given
    cpc,        \* where the check is: "function", "body" or "done"
    nfuncs,     \* how many functions the check was given
    nstmts,     \* how many statements of the current body it was given
    reported,   \* the names the check reported as undeclared or undefined
    pipe,       \* the run of compile: its stage, data and exit code
    trial       \* a function applied on its own: its inputs and results

vars ==
    <<mode, lexer, list, lpc, parser, program, ppc, tree, analyzer, cnode,
      cpc, nfuncs, nstmts, reported, pipe, trial>>

lexVars == <<lexer, list, lpc>>

parseVars == <<parser, program, ppc, tree>>

checkVars == <<analyzer, cnode, cpc, nfuncs, nstmts, reported>>

(***************************************************************************)
(* Bounds of the model: the longest source text given to the tokenizer,    *)
(* the number of free tokens that follow the fixed opening of a token list *)
(* given to the parser, and the numbers of functions and of statements of  *)
(* a function body given to the check, and the number of pieces of text    *)
(* joined before the place where text is inserted into a source, the       *)
(* number of characters after the first of an operator text, and after the *)
(* opening quote of a literal text, the number of operators of an          *)
(* expression given to the parser, the number of statements of a body     *)
(* given to the translator, and the number of tokens after the identifier  *)
(* that begins a statement given to the parser.                            *)
(***************************************************************************)
MaxSrcLen == 4

MaxBody == 2

MaxFuncs == 2

MaxStmts == 2

MaxPieces == 1

MaxRest == 2

MaxLiteral == 4

MaxOperators == 2

MaxSteps == 2

MaxAfter == 3

(***************************************************************************)
(* Characters.                                                             *)
(***************************************************************************)
NUL == ""

Letters ==
    {"a", "b", "c", "d", "e", "f", "g", "h", "i", "j", "k", "l", "m",
     "n", "o", "p", "q", "r", "s", "t", "u", "v", "w", "x", "y", "z",
     "A", "B", "C", "D", "E", "F", "G", "H", "I", "J", "K", "L", "M",
     "N", "O", "P", "Q", "R", "S", "T", "U", "V", "W", "X", "Y", "Z"}

Digits == {"0", "1", "2", "3", "4", "5", "6", "7", "8", "9"}

is_identifier_start(c) == c \in Letters \/ c = "_"

is_identifier_char(c) == c \in Letters \/ c \in Digits \/ c = "_"

is_digit(c) == c \in Digits

(***************************************************************************)
(* Tokens.                                                                 *)
(***************************************************************************)
token_create(type, lexeme, line, column) ==
    [type |-> type, lexeme |-> lexeme, line |-> line, column |-> column]

check_keyword(lexeme) ==
    CASE lexeme = "int"      -> "TOKEN_INT"
      [] lexeme = "char"     -> "TOKEN_CHAR"
      [] lexeme = "float"    -> "TOKEN_FLOAT"
      [] lexeme = "double"   -> "TOKEN_DOUBLE"
      [] lexeme = "void"     -> "TOKEN_VOID"
      [] lexeme = "if"       -> "TOKEN_IF"
      [] lexeme = "else"     -> "TOKEN_ELSE"
      [] lexeme = "while"    -> "TOKEN_WHILE"
      [] lexeme = "for"      -> "TOKEN_FOR"
      [] lexeme = "do"       -> "TOKEN_DO"
      [] lexeme = "return"   -> "TOKEN_RETURN"
      [] lexeme = "break"    -> "TOKEN_BREAK"
      [] lexeme = "continue" -> "TOKEN_CONTINUE"
      [] lexeme = "struct"   -> "TOKEN_STRUCT"
      [] lexeme = "union"    -> "TOKEN_UNION"
      [] lexeme = "typedef"  -> "TOKEN_TYPEDEF"
      [] lexeme = "sizeof"   -> "TOKEN_SIZEOF"
      [] lexeme = "const"    -> "TOKEN_CONST"
      [] lexeme = "static"   -> "TOKEN_STATIC"
      [] lexeme = "extern"   -> "TOKEN_EXTERN"
      [] lexeme = "switch"   -> "TOKEN_SWITCH"
      [] lexeme = "case"     -> "TOKEN_CASE"
      [] lexeme = "default"  -> "TOKEN_DEFAULT"
      [] lexeme = "enum"     -> "TOKEN_ENUM"
      [] lexeme = "goto"     -> "TOKEN_GOTO"
      [] lexeme = "signed"   -> "TOKEN_SIGNED"
      [] lexeme = "unsigned" -> "TOKEN_UNSIGNED"
      [] lexeme = "long"     -> "TOKEN_LONG"
      [] lexeme = "short"    -> "TOKEN_SHORT"
      [] OTHER               -> "TOKEN_IDENTIFIER"

(***************************************************************************)
(* The lexer (src/src/utils.c).                                            *)
(***************************************************************************)
lexer_create(source) ==
    [source |-> source, current |-> 0, line |-> 1, column |-> 1,
     length |-> Len(source)]

CharAt(lx, i) == SubSeq(lx.source, i + 1, i + 1)

lexer_is_at_end(lx) == lx.current >= lx.length

lexer_peek(lx) == IF lexer_is_at_end(lx) THEN NUL ELSE CharAt(lx, lx.current)

peek_next(lx) ==
    IF lx.current + 1 >= lx.length THEN NUL ELSE CharAt(lx, lx.current + 1)

lexer_advance(lx) ==
    IF CharAt(lx, lx.current) = "\n"
    THEN [lx EXCEPT !.current = @ + 1, !.line = @ + 1, !.column = 1]
    ELSE [lx EXCEPT !.current = @ + 1, !.column = @ + 1]

\* match that never finds the expected character.
lexer_match_never(lx, expected) == FALSE

\* The condition under which match(lexer, expected) consumes the character.
lexer_match(lx, expected) ==
    ~lexer_is_at_end(lx) /\ CharAt(lx, lx.current) = expected

\* SkipLine with a loop that consumes nothing.
SkipLineNoAdvance(lx) == lx

\* while (peek(lexer) != '\n' && !is_at_end(lexer)) advance(lexer);
RECURSIVE SkipLine(_)
SkipLine(lx) ==
    IF lexer_peek(lx) # "\n" /\ ~lexer_is_at_end(lx)
    THEN SkipLine(lexer_advance(lx))
    ELSE lx

\* SkipBlockComment that stops at once, leaving the body to be scanned.
SkipBlockCommentNoBody(lx) == lx

\* The loop over the body of a block comment, after its opening was consumed.
RECURSIVE SkipBlockComment(_)
SkipBlockComment(lx) ==
    IF ~lexer_is_at_end(lx)
    THEN IF lexer_peek(lx) = "*" /\ peek_next(lx) = "/"
         THEN lexer_advance(lexer_advance(lx))
         ELSE SkipBlockComment(lexer_advance(lx))
    ELSE lx

\* One iteration of the loop of skip_whitespace, entered with !is_at_end:
\* the lexer after it, and whether the iteration left the loop by break.
SkipWhitespaceIteration(lx) ==
    LET c == lexer_peek(lx) IN
    IF c = " " \/ c = "\t" \/ c = "\r" \/ c = "\n"
    THEN [lexer |-> lexer_advance(lx), brk |-> FALSE]
    ELSE IF c = "#"
    THEN [lexer |-> SkipLine(lx), brk |-> FALSE]
    ELSE IF c = "/"
    THEN IF peek_next(lx) = "/"
         THEN [lexer |-> SkipLine(lx), brk |-> FALSE]
         ELSE IF peek_next(lx) = "*"
         THEN [lexer |-> SkipBlockComment(lexer_advance(lexer_advance(lx))),
               brk |-> FALSE]
         ELSE [lexer |-> lx, brk |-> TRUE]
    ELSE [lexer |-> lx, brk |-> TRUE]

RECURSIVE skip_whitespace(_)
skip_whitespace(lx) ==
    IF ~lexer_is_at_end(lx)
    THEN LET it == SkipWhitespaceIteration(lx) IN
         IF it.brk THEN it.lexer ELSE skip_whitespace(it.lexer)
    ELSE lx

\* Lexeme with one character too few copied.
LexemeWithoutLast(lx, start) == SubSeq(lx.source, start + 1, lx.current - 1)

\* The lexeme strncpy copies: the characters from start up to current.
Lexeme(lx, start) == SubSeq(lx.source, start + 1, lx.current)

RECURSIVE ScanIdentifierLoop(_)
ScanIdentifierLoop(lx) ==
    IF is_identifier_char(lexer_peek(lx))
    THEN ScanIdentifierLoop(lexer_advance(lx))
    ELSE lx

scan_identifier(lx) ==
    LET start == lx.current
        start_column == lx.column
        after == ScanIdentifierLoop(lx)
        lexeme == Lexeme(after, start)
    IN  [lexer |-> after,
         token |-> token_create(check_keyword(lexeme), lexeme, after.line,
                                start_column)]

RECURSIVE ScanDigits(_)
ScanDigits(lx) ==
    IF is_digit(lexer_peek(lx)) THEN ScanDigits(lexer_advance(lx)) ELSE lx

scan_number(lx) ==
    LET start == lx.current
        start_column == lx.column
        whole == ScanDigits(lx)
        after == IF lexer_peek(whole) = "." /\ is_digit(peek_next(whole))
                 THEN ScanDigits(lexer_advance(whole))
                 ELSE whole
    IN  [lexer |-> after,
         token |-> token_create("TOKEN_NUMBER", Lexeme(after, start),
                                after.line, start_column)]

\* ScanQuoted that takes a backslash as an ordinary character.
RECURSIVE ScanQuotedNoEscape(_, _)
ScanQuotedNoEscape(lx, quote) ==
    IF lexer_peek(lx) # quote /\ ~lexer_is_at_end(lx)
    THEN ScanQuotedNoEscape(lexer_advance(lx), quote)
    ELSE lx

\* The loop of scan_string and scan_char up to the closing quote or the end.
RECURSIVE ScanQuoted(_, _)
ScanQuoted(lx, quote) ==
    IF lexer_peek(lx) # quote /\ ~lexer_is_at_end(lx)
    THEN IF lexer_peek(lx) = "\\"
         THEN LET esc == lexer_advance(lx) IN
              ScanQuoted(IF ~lexer_is_at_end(esc) THEN lexer_advance(esc)
                         ELSE esc, quote)
         ELSE ScanQuoted(lexer_advance(lx), quote)
    ELSE lx

scan_string(lx) ==
    LET start == lx.current
        start_column == lx.column
        body == ScanQuoted(lexer_advance(lx), "\"")
    IN  IF lexer_is_at_end(body)
        THEN [lexer |-> body,
              token |-> token_create("TOKEN_ERROR", "Unterminated string",
                                     body.line, start_column)]
        ELSE LET after == lexer_advance(body) IN
             [lexer |-> after,
              token |-> token_create("TOKEN_STRING", Lexeme(after, start),
                                     after.line, start_column)]

scan_char(lx) ==
    LET start == lx.current
        start_column == lx.column
        body == ScanQuoted(lexer_advance(lx), "'")
    IN  IF lexer_is_at_end(body)
        THEN [lexer |-> body,
              token |-> token_create("TOKEN_ERROR",
                                     "Unterminated character literal",
                                     body.line, start_column)]
        ELSE LET after == lexer_advance(body) IN
             [lexer |-> after,
              token |-> token_create("TOKEN_CHAR_LITERAL",
                                     Lexeme(after, start), after.line,
                                     start_column)]

\* return token_create(type, lexeme, lexer->line, start_column) with the
\* lexer as it is at the return.
Emit(lx, type, lexeme, start_column) ==
    [lexer |-> lx, token |-> token_create(type, lexeme, lx.line, start_column)]

\* The switch of lexer_next_token over the character c already consumed.
ScanOperator(lx, c, col) ==
    LET m(e) == lexer_match(lx, e)
        adv == lexer_advance(lx)
    IN
    CASE c = "+" ->
           IF m("+") THEN Emit(adv, "TOKEN_INCREMENT", "++", col)
           ELSE IF m("=") THEN Emit(adv, "TOKEN_PLUS_ASSIGN", "+=", col)
           ELSE Emit(lx, "TOKEN_PLUS", "+", col)
      [] c = "-" ->
           IF m("-") THEN Emit(adv, "TOKEN_DECREMENT", "--", col)
           ELSE IF m(">") THEN Emit(adv, "TOKEN_ARROW", "->", col)
           ELSE IF m("=") THEN Emit(adv, "TOKEN_MINUS_ASSIGN", "-=", col)
           ELSE Emit(lx, "TOKEN_MINUS", "-", col)
      [] c = "*" ->
           IF m("=") THEN Emit(adv, "TOKEN_STAR_ASSIGN", "*=", col)
           ELSE Emit(lx, "TOKEN_STAR", "*", col)
      [] c = "/" ->
           IF m("=") THEN Emit(adv, "TOKEN_SLASH_ASSIGN", "/=", col)
           ELSE Emit(lx, "TOKEN_SLASH", "/", col)
      [] c = "%" ->
           IF m("=") THEN Emit(adv, "TOKEN_PERCENT_ASSIGN", "%=", col)
           ELSE Emit(lx, "TOKEN_PERCENT", "%", col)
      [] c = "=" ->
           IF m("=") THEN Emit(adv, "TOKEN_EQ", "==", col)
           ELSE Emit(lx, "TOKEN_ASSIGN", "=", col)
      [] c = "!" ->
           IF m("=") THEN Emit(adv, "TOKEN_NE", "!=", col)
           ELSE Emit(lx, "TOKEN_NOT", "!", col)
      [] c = "<" ->
           IF m("<")
           THEN IF lexer_match(adv, "=")
                THEN Emit(lexer_advance(adv), "TOKEN_SHL_ASSIGN", "<<=", col)
                ELSE Emit(adv, "TOKEN_SHL", "<<", col)
           ELSE IF m("=") THEN Emit(adv, "TOKEN_LE", "<=", col)
           ELSE Emit(lx, "TOKEN_LT", "<", col)
      [] c = ">" ->
           IF m(">")
           THEN IF lexer_match(adv, "=")
                THEN Emit(lexer_advance(adv), "TOKEN_SHR_ASSIGN", ">>=", col)
                ELSE Emit(adv, "TOKEN_SHR", ">>", col)
           ELSE IF m("=") THEN Emit(adv, "TOKEN_GE", ">=", col)
           ELSE Emit(lx, "TOKEN_GT", ">", col)
      [] c = "&" ->
           IF m("&") THEN Emit(adv, "TOKEN_AND", "&&", col)
           ELSE IF m("=") THEN Emit(adv, "TOKEN_AND_ASSIGN", "&=", col)
           ELSE Emit(lx, "TOKEN_AMPERSAND", "&", col)
      [] c = "|" ->
           IF m("|") THEN Emit(adv, "TOKEN_OR", "||", col)
           ELSE IF m("=") THEN Emit(adv, "TOKEN_OR_ASSIGN", "|=", col)
           ELSE Emit(lx, "TOKEN_PIPE", "|", col)
      [] c = "^" ->
           IF m("=") THEN Emit(adv, "TOKEN_XOR_ASSIGN", "^=", col)
           ELSE Emit(lx, "TOKEN_CARET", "^", col)
      [] c = "~" -> Emit(lx, "TOKEN_TILDE", "~", col)
      [] c = "?" -> Emit(lx, "TOKEN_QUESTION", "?", col)
      [] c = ":" -> Emit(lx, "TOKEN_COLON", ":", col)
      [] c = "." -> Emit(lx, "TOKEN_DOT", ".", col)
      [] c = "(" -> Emit(lx, "TOKEN_LPAREN", "(", col)
      [] c = ")" -> Emit(lx, "TOKEN_RPAREN", ")", col)
      [] c = "{" -> Emit(lx, "TOKEN_LBRACE", "{", col)
      [] c = "}" -> Emit(lx, "TOKEN_RBRACE", "}", col)
      [] c = "[" -> Emit(lx, "TOKEN_LBRACKET", "[", col)
      [] c = "]" -> Emit(lx, "TOKEN_RBRACKET", "]", col)
      [] c = ";" -> Emit(lx, "TOKEN_SEMICOLON", ";", col)
      [] c = "," -> Emit(lx, "TOKEN_COMMA", ",", col)
      [] OTHER ->
           Emit(lx, "TOKEN_ERROR", "Unexpected character: '" \o c \o "'", col)

\* lexer_next_token after its call of skip_whitespace.
ScanToken(lx) ==
    IF lexer_is_at_end(lx)
    THEN Emit(lx, "TOKEN_EOF", "", lx.column)
    ELSE LET start_column == lx.column
             c == CharAt(lx, lx.current)
         IN  IF is_identifier_start(c) THEN scan_identifier(lx)
             ELSE IF is_digit(c) THEN scan_number(lx)
             ELSE IF c = "\"" THEN scan_string(lx)
             ELSE IF c = "'" THEN scan_char(lx)
             ELSE ScanOperator(lexer_advance(lx), c, start_column)

lexer_next_token(lx) == ScanToken(skip_whitespace(lx))

\* IsTerminal without the test for TOKEN_ERROR.
IsTerminalEofOnly(token) == token.type = "TOKEN_EOF"

\* The test that ends the loop of tokenize.
IsTerminal(token) == token.type = "TOKEN_EOF" \/ token.type = "TOKEN_ERROR"

RECURSIVE TokenizeLoop(_, _)
TokenizeLoop(lx, acc) ==
    LET r == lexer_next_token(lx)
        grown == Append(acc, r.token)
    IN  IF IsTerminal(r.token) THEN grown ELSE TokenizeLoop(r.lexer, grown)

tokenize(source) == TokenizeLoop(lexer_create(source), <<>>)

(***************************************************************************)
(* Syntax nodes (src/src/ast.c).  A null pointer is the record Null.       *)
(***************************************************************************)
Null == [type |-> "NULL"]

ast_create_node(type) == [type |-> type, line |-> 0, column |-> 0]

ast_create_literal(value, data_type) ==
    ast_create_node("NODE_LITERAL") @@ [value |-> value, data_type |-> data_type]

ast_create_identifier(name) ==
    ast_create_node("NODE_IDENTIFIER") @@ [name |-> name]

ast_create_binary_op(operator, left, right) ==
    ast_create_node("NODE_BINARY_OP")
        @@ [operator |-> operator, left |-> left, right |-> right]

ast_create_unary_op(operator, operand) ==
    ast_create_node("NODE_UNARY_OP") @@ [operator |-> operator, operand |-> operand]

ast_create_function_call(name, args) ==
    ast_create_node("NODE_FUNCTION_CALL") @@ [name |-> name, arguments |-> args]

ast_create_array_access(name, index) ==
    ast_create_node("NODE_ARRAY_ACCESS") @@ [name |-> name, index |-> index]

ast_create_assignment(target, value) ==
    ast_create_node("NODE_ASSIGNMENT") @@ [target |-> target, value |-> value]

ast_create_compound_assign(op, target, value) ==
    ast_create_node("NODE_COMPOUND_ASSIGN")
        @@ [operator |-> op, target |-> target, value |-> value]

ast_create_member_access(object, member, is_arrow) ==
    ast_create_node("NODE_MEMBER_ACCESS")
        @@ [object |-> object, member |-> member, is_arrow |-> is_arrow]

ast_create_ternary(condition, then_expr, else_expr) ==
    ast_create_node("NODE_TERNARY")
        @@ [condition |-> condition, then_expr |-> then_expr,
            else_expr |-> else_expr]

ast_create_sizeof_type(type_name) ==
    ast_create_node("NODE_SIZEOF") @@ [type_name |-> type_name, expression |-> Null]

ast_create_sizeof_expr(expression) ==
    ast_create_node("NODE_SIZEOF") @@ [type_name |-> "", expression |-> expression]

ast_create_declaration(data_type, name, initializer) ==
    ast_create_node("NODE_DECLARATION")
        @@ [data_type |-> data_type, name |-> name, is_array |-> FALSE,
            array_size |-> Null, initializer |-> initializer]

ast_create_array_declaration(data_type, name, size) ==
    ast_create_node("NODE_DECLARATION")
        @@ [data_type |-> data_type, name |-> name, is_array |-> TRUE,
            array_size |-> size, initializer |-> Null]

ast_create_if(condition, then_branch, else_branch) ==
    ast_create_node("NODE_IF")
        @@ [condition |-> condition, then_branch |-> then_branch,
            else_branch |-> else_branch]

ast_create_while(condition, body) ==
    ast_create_node("NODE_WHILE") @@ [condition |-> condition, body |-> body]

ast_create_do_while(body, condition) ==
    ast_create_node("NODE_DO_WHILE") @@ [condition |-> condition, body |-> body]

ast_create_for(init, condition, increment, body) ==
    ast_create_node("NODE_FOR")
        @@ [init |-> init, condition |-> condition, increment |-> increment,
            body |-> body]

ast_create_return(value) == ast_create_node("NODE_RETURN") @@ [value |-> value]

ast_create_break == ast_create_node("NODE_BREAK")

ast_create_continue == ast_create_node("NODE_CONTINUE")

ast_create_block == ast_create_node("NODE_BLOCK") @@ [statements |-> <<>>]

ast_add_statement(block, statement) ==
    [type |-> block.type, line |-> block.line, column |-> block.column,
     statements |-> Append(block.statements, statement)]

ast_create_switch(expression) ==
    ast_create_node("NODE_SWITCH") @@ [expression |-> expression, cases |-> <<>>]

ast_create_case(value) ==
    ast_create_node("NODE_CASE") @@ [value |-> value, statements |-> <<>>]

ast_create_default ==
    ast_create_node("NODE_DEFAULT") @@ [value |-> Null, statements |-> <<>>]

ast_add_case(switch_stmt, case_node) ==
    [type |-> switch_stmt.type, line |-> switch_stmt.line,
     column |-> switch_stmt.column, expression |-> switch_stmt.expression,
     cases |-> Append(switch_stmt.cases, case_node)]

ast_add_case_statement(case_node, statement) ==
    [type |-> case_node.type, line |-> case_node.line,
     column |-> case_node.column, value |-> case_node.value,
     statements |-> Append(case_node.statements, statement)]

ast_create_goto(label) == ast_create_node("NODE_GOTO") @@ [label |-> label]

ast_create_label(name, statement) ==
    ast_create_node("NODE_LABEL") @@ [name |-> name, statement |-> statement]

parameter_create(type, name, is_array) ==
    [type |-> type, name |-> name, is_array |-> is_array]

ast_create_function(return_type, name, params, body) ==
    ast_create_node("NODE_FUNCTION")
        @@ [return_type |-> return_type, name |-> name, parameters |-> params,
            body |-> body]

(***************************************************************************)
(* The parser (src/src/parser.c).  A parse function takes the Parser and   *)
(* yields the Parser after it and the node (or token) it returns.          *)
(*                                                                         *)
(* Two things a call can do instead of returning are recorded in the       *)
(* Parser: null_deref, a read through a null node pointer, and hang, a     *)
(* loop iteration that ends in the state it began in and so repeats for    *)
(* ever.  Nothing the code does after either is observable, so from then   *)
(* on peek answers end-of-stream and advance and error_at change nothing:  *)
(* the enclosing calls unwind with the Parser as it was at that point.     *)
(*                                                                         *)
(* Two more fields record reads outside the token array: past_eof, the     *)
(* cursor was moved beyond the last token, and before_first, previous was  *)
(* evaluated with the cursor at 0 (tokens[-1]).                            *)
(***************************************************************************)
parser_create(tokens) ==
    [tokens |-> tokens, current |-> 0, count |-> Len(tokens),
     had_error |-> FALSE, errors |-> <<>>, null_deref |-> FALSE,
     hang |-> FALSE, past_eof |-> FALSE, before_first |-> FALSE]

Halted(p) == p.null_deref \/ p.hang

EofToken == token_create("TOKEN_EOF", "", 0, 0)

peek(p) ==
    IF Halted(p) THEN EofToken
    ELSE IF p.current >= p.count THEN p.tokens[p.count]
    ELSE p.tokens[p.current + 1]

previous(p) == p.tokens[p.current]

is_at_end_beyond(p) == Halted(p) \/ p.current >= p.count

is_at_end(p) == peek(p).type = "TOKEN_EOF"

\* The cursor of p moved to that of the parser given, and previous read.
Moved(p, moved) ==
    IF Halted(p) THEN p
    ELSE [moved EXCEPT !.past_eof = @ \/ moved.current > p.count - 1,
                       !.before_first = @ \/ moved.current = 0]

\* The Parser after advance(parser); the token it returns is previous of it.
advance(p) ==
    Moved(p, IF ~is_at_end(p) THEN [p EXCEPT !.current = @ + 1] ELSE p)

check(p, type) == IF is_at_end(p) THEN FALSE ELSE peek(p).type = type

\* match_multiple: whether the next token is of one of the types.
CheckAny(p, types) == \E type \in types : check(p, type)

\* error_at that reports the diagnostic and leaves had_error as it is.
error_at_no_flag(p, token, message) ==
    IF Halted(p) THEN p
    ELSE [p EXCEPT !.errors = Append(@, [line |-> token.line,
                                         column |-> token.column,
                                         message |-> message])]

error_at(p, token, message) ==
    IF Halted(p) THEN p
    ELSE [p EXCEPT !.had_error = TRUE,
                   !.errors = Append(@, [line |-> token.line,
                                         column |-> token.column,
                                         message |-> message])]

\* consume: the Parser after it and the token returned (Null when missing).
consume(p, type, message) ==
    IF check(p, type)
    THEN [p |-> advance(p), node |-> previous(advance(p))]
    ELSE [p |-> error_at(p, peek(p), message), node |-> Null]

is_type(type) ==
    type \in {"TOKEN_INT", "TOKEN_CHAR", "TOKEN_FLOAT", "TOKEN_DOUBLE",
              "TOKEN_VOID", "TOKEN_SIGNED", "TOKEN_UNSIGNED", "TOKEN_LONG",
              "TOKEN_SHORT", "TOKEN_STRUCT", "TOKEN_UNION", "TOKEN_ENUM",
              "TOKEN_CONST"}

is_compound_assign(type) ==
    type \in {"TOKEN_PLUS_ASSIGN", "TOKEN_MINUS_ASSIGN", "TOKEN_STAR_ASSIGN",
              "TOKEN_SLASH_ASSIGN", "TOKEN_PERCENT_ASSIGN", "TOKEN_AND_ASSIGN",
              "TOKEN_OR_ASSIGN", "TOKEN_XOR_ASSIGN", "TOKEN_SHL_ASSIGN",
              "TOKEN_SHR_ASSIGN"}

Ret(p, node) == [node |-> node, p |-> p]

\* The functions of the recursive descent call each other through Call, which
\* stands for the forward declarations at the head of parser.c: Call(f, p) is
\* f(p).
RECURSIVE Call(_, _), BlockLoop(_, _), SwitchLoop(_, _), PostfixLoop(_),
          ArgumentLoop(_, _), SizeofStars(_, _), BinaryLoop(_, _)

\* do { args[arg_count++] = parse_expression(parser); } while (match(COMMA));
ArgumentLoop(p, args) ==
    LET r == Call("parse_expression", p)
        grown == Append(args, r.node)
    IN  IF check(r.p, "TOKEN_COMMA")
        THEN ArgumentLoop(advance(r.p), grown)
        ELSE Ret(r.p, grown)

\* while (match(parser, TOKEN_STAR)) strcat(type_str, "*");
SizeofStars(p, type_str) ==
    IF check(p, "TOKEN_STAR")
    THEN SizeofStars(advance(p), type_str \o "*")
    ELSE Ret(p, type_str)

parse_primary(p) ==
    CASE check(p, "TOKEN_NUMBER") ->
           Ret(advance(p), ast_create_literal(previous(advance(p)).lexeme,
                                              "number"))
      [] check(p, "TOKEN_STRING") ->
           Ret(advance(p), ast_create_literal(previous(advance(p)).lexeme,
                                              "string"))
      [] check(p, "TOKEN_CHAR_LITERAL") ->
           Ret(advance(p), ast_create_literal(previous(advance(p)).lexeme,
                                              "char"))
      [] check(p, "TOKEN_SIZEOF") ->
           LET p1 == consume(advance(p), "TOKEN_LPAREN",
                             "Expected '(' after 'sizeof'").p
           IN  IF is_type(peek(p1).type)
               THEN LET p2 == advance(p1)
                        stars == SizeofStars(p2, previous(p2).lexeme)
                        p3 == consume(stars.p, "TOKEN_RPAREN",
                                      "Expected ')' after type").p
                    IN  Ret(p3, ast_create_sizeof_type(stars.node))
               ELSE LET e == Call("parse_expression", p1)
                        p3 == consume(e.p, "TOKEN_RPAREN",
                                      "Expected ')' after expression").p
                    IN  Ret(p3, ast_create_sizeof_expr(e.node))
      [] check(p, "TOKEN_IDENTIFIER") ->
           LET p1 == advance(p)
               name == previous(p1).lexeme
           IN  IF check(p1, "TOKEN_LPAREN")
               THEN LET p2 == advance(p1)
                        args == IF ~check(p2, "TOKEN_RPAREN")
                                THEN ArgumentLoop(p2, <<>>)
                                ELSE Ret(p2, <<>>)
                        p3 == consume(args.p, "TOKEN_RPAREN",
                                      "Expected ')' after arguments").p
                    IN  Ret(p3, ast_create_function_call(name, args.node))
               ELSE IF check(p1, "TOKEN_LBRACKET")
               THEN LET index == Call("parse_expression", advance(p1))
                        p3 == consume(index.p, "TOKEN_RBRACKET",
                                      "Expected ']' after array index").p
                    IN  Ret(p3, ast_create_array_access(name, index.node))
               ELSE Ret(p1, ast_create_identifier(name))
      [] check(p, "TOKEN_LPAREN") ->
           LET e == Call("parse_expression", advance(p))
               p3 == consume(e.p, "TOKEN_RPAREN",
                             "Expected ')' after expression").p
           IN  Ret(p3, e.node)
      [] OTHER -> Ret(error_at(p, peek(p), "Expected expression"), Null)

\* The loop of parse_postfix over the expression parsed so far.  Reading
\* expr->type of a null expr is the null dereference; the build faults there.
PostfixLoop(r) ==
    IF r.p.null_deref \/ r.p.hang THEN r
    ELSE IF check(r.p, "TOKEN_DOT")
    THEN LET member == consume(advance(r.p), "TOKEN_IDENTIFIER",
                               "Expected member name after '.'")
         IN  PostfixLoop(Ret(member.p,
                             IF member.node # Null
                             THEN ast_create_member_access(
                                      r.node, member.node.lexeme, FALSE)
                             ELSE r.node))
    ELSE IF check(r.p, "TOKEN_ARROW")
    THEN LET member == consume(advance(r.p), "TOKEN_IDENTIFIER",
                               "Expected member name after '->'")
         IN  PostfixLoop(Ret(member.p,
                             IF member.node # Null
                             THEN ast_create_member_access(
                                      r.node, member.node.lexeme, TRUE)
                             ELSE r.node))
    ELSE IF check(r.p, "TOKEN_LBRACKET")
    THEN LET index == Call("parse_expression", advance(r.p))
             p1 == consume(index.p, "TOKEN_RBRACKET",
                           "Expected ']' after index").p
         IN  IF r.node = Null
             THEN IF Halted(p1) THEN Ret(p1, Null)
                  ELSE Ret([p1 EXCEPT !.null_deref = TRUE], Null)
             ELSE IF r.node.type = "NODE_IDENTIFIER"
             THEN PostfixLoop(Ret(p1, ast_create_array_access(r.node.name,
                                                              index.node)))
             ELSE PostfixLoop(Ret(p1, ast_create_binary_op("[]", r.node,
                                                           index.node)))
    ELSE IF check(r.p, "TOKEN_INCREMENT")
    THEN PostfixLoop(Ret(advance(r.p), ast_create_unary_op("++post", r.node)))
    ELSE IF check(r.p, "TOKEN_DECREMENT")
    THEN PostfixLoop(Ret(advance(r.p), ast_create_unary_op("--post", r.node)))
    ELSE r

parse_postfix(p) == PostfixLoop(parse_primary(p))

parse_unary(p) ==
    IF CheckAny(p, {"TOKEN_NOT", "TOKEN_MINUS", "TOKEN_PLUS", "TOKEN_INCREMENT",
                    "TOKEN_DECREMENT", "TOKEN_AMPERSAND", "TOKEN_TILDE"})
    THEN LET p1 == advance(p)
             operand == Call("parse_unary", p1)
         IN  Ret(operand.p, ast_create_unary_op(previous(p1).lexeme, operand.node))
    ELSE IF check(p, "TOKEN_STAR")
    THEN LET operand == Call("parse_unary", advance(p))
         IN  Ret(operand.p, ast_create_unary_op("*", operand.node))
    ELSE parse_postfix(p)

\* The operator tokens each binary level matches.
LevelTokens(level) ==
    CASE level = "factor"      -> {"TOKEN_STAR", "TOKEN_SLASH", "TOKEN_PERCENT"}
      [] level = "term"        -> {"TOKEN_PLUS", "TOKEN_MINUS"}
      [] level = "shift"       -> {"TOKEN_SHL", "TOKEN_SHR"}
      [] level = "comparison"  -> {"TOKEN_GT", "TOKEN_GE", "TOKEN_LT", "TOKEN_LE"}
      [] level = "equality"    -> {"TOKEN_EQ", "TOKEN_NE"}
      [] level = "bitwise_and" -> {"TOKEN_AMPERSAND"}
      [] level = "bitwise_xor" -> {"TOKEN_CARET"}
      [] level = "bitwise_or"  -> {"TOKEN_PIPE"}
      [] level = "logical_and" -> {"TOKEN_AND"}
      [] level = "logical_or"  -> {"TOKEN_OR"}

\* Operand that calls the level itself, so that the level groups to the right.
OperandSameLevel(level, p) == Call("parse_" \o level, p)

\* The function each binary level calls for its right operands.
Operand(level, p) ==
    CASE level = "factor"      -> Call("parse_unary", p)
      [] level = "term"        -> Call("parse_factor", p)
      [] level = "shift"       -> Call("parse_term", p)
      [] level = "comparison"  -> Call("parse_shift", p)
      [] level = "equality"    -> Call("parse_comparison", p)
      [] level = "bitwise_and" -> Call("parse_equality", p)
      [] level = "bitwise_xor" -> Call("parse_bitwise_and", p)
      [] level = "bitwise_or"  -> Call("parse_bitwise_xor", p)
      [] level = "logical_and" -> Call("parse_bitwise_or", p)
      [] level = "logical_or"  -> Call("parse_logical_and", p)

\* The loop of a binary level over its left operand, parsed already:
\* while (match_multiple(...)) { op = previous; right = operand();
\*                               left = ast_create_binary_op(op, left, right); }
BinaryLoop(level, r) ==
    IF r.p.null_deref \/ r.p.hang THEN r
    ELSE IF CheckAny(r.p, LevelTokens(level))
    THEN LET p1 == advance(r.p)
             right == Operand(level, p1)
         IN  BinaryLoop(level,
                        Ret(right.p,
                            ast_create_binary_op(previous(p1).lexeme, r.node,
                                                 right.node)))
    ELSE r

\* The binary levels from the tightest to the loosest.  Each begins by
\* calling the level before it on the same token, so a level's value is the
\* loops of the levels up to it run in turn over what parse_unary returned.
LevelOrder ==
    <<"factor", "term", "shift", "comparison", "equality", "bitwise_and",
      "bitwise_xor", "bitwise_or", "logical_and", "logical_or">>

RECURSIVE Climb(_, _, _)
Climb(from, to, r) ==
    IF r.p.null_deref \/ r.p.hang \/ from > to THEN r
    ELSE Climb(from + 1, to, BinaryLoop(LevelOrder[from], r))

parse_factor(p) == Climb(1, 1, parse_unary(p))

parse_term(p) == Climb(1, 2, parse_unary(p))

parse_shift(p) == Climb(1, 3, parse_unary(p))

parse_comparison(p) == Climb(1, 4, parse_unary(p))

parse_equality(p) == Climb(1, 5, parse_unary(p))

parse_bitwise_and(p) == Climb(1, 6, parse_unary(p))

parse_bitwise_xor(p) == Climb(1, 7, parse_unary(p))

parse_bitwise_or(p) == Climb(1, 8, parse_unary(p))

parse_logical_and(p) == Climb(1, 9, parse_unary(p))

parse_logical_or(p) == Climb(1, 10, parse_unary(p))

\* What parse_ternary does with the condition it has parsed.
TernaryRest(condition) ==
    IF condition.p.null_deref \/ condition.p.hang THEN condition
    ELSE IF check(condition.p, "TOKEN_QUESTION")
    THEN LET then_expr == Call("parse_expression", advance(condition.p))
             p1 == consume(then_expr.p, "TOKEN_COLON",
                           "Expected ':' in ternary expression").p
             else_expr == Call("parse_ternary", p1)
         IN  Ret(else_expr.p,
                 ast_create_ternary(condition.node, then_expr.node,
                                    else_expr.node))
    ELSE condition

parse_ternary(p) == TernaryRest(parse_logical_or(p))

\* What parse_assignment does with the target it has parsed.
AssignmentRest(expr) ==
    IF expr.p.null_deref \/ expr.p.hang THEN expr
    ELSE IF check(expr.p, "TOKEN_ASSIGN")
    THEN LET value == Call("parse_assignment", advance(expr.p))
         IN  Ret(value.p, ast_create_assignment(expr.node, value.node))
    ELSE IF is_compound_assign(peek(expr.p).type)
    THEN LET p1 == advance(expr.p)
             value == Call("parse_assignment", p1)
         IN  Ret(value.p,
                 ast_create_compound_assign(previous(p1).lexeme, expr.node,
                                            value.node))
    ELSE expr

parse_assignment(p) == AssignmentRest(parse_ternary(p))

parse_expression(p) == parse_assignment(p)

\* if (match(parser, TOKEN_LBRACE)) parse_block(parser) else parse_statement(parser)
BlockOrStatement(p) ==
    IF check(p, "TOKEN_LBRACE") THEN Call("parse_block", advance(p))
    ELSE Call("parse_statement", p)

\* One iteration of a statement loop has run from the Parser `before` to
\* `after`: when it ended where it began the loop never ends.
Diverges(before, after) == ~Halted(after) /\ after.current = before.current

\* One iteration of the loop of parse_block, entered with its test passed.
BlockIteration(p, block) ==
    LET stmt == Call("parse_statement", p) IN
    Ret(stmt.p, IF stmt.node # Null THEN ast_add_statement(block, stmt.node)
                ELSE block)

BlockLoop(p, block) ==
    IF ~check(p, "TOKEN_RBRACE") /\ ~is_at_end(p)
    THEN LET it == BlockIteration(p, block) IN
         IF Diverges(p, it.p) THEN Ret([it.p EXCEPT !.hang = TRUE], it.node)
         ELSE BlockLoop(it.p, it.node)
    ELSE Ret(p, block)

parse_block(p) ==
    LET body == BlockLoop(p, ast_create_block) IN
    Ret(consume(body.p, "TOKEN_RBRACE", "Expected '}' after block").p, body.node)

\* ast_add_case_statement(current_case, stmt): current_case is the case
\* added last.
AddToCurrentCase(sw, statement) ==
    [type |-> sw.type, line |-> sw.line, column |-> sw.column,
     expression |-> sw.expression,
     cases |-> [sw.cases EXCEPT ![Len(sw.cases)] =
                    ast_add_case_statement(@, statement)]]

\* One iteration of the loop over a switch body, entered with its test passed.
SwitchIteration(p, sw) ==
    IF check(p, "TOKEN_CASE")
    THEN LET value == Call("parse_expression", advance(p))
             p1 == consume(value.p, "TOKEN_COLON",
                           "Expected ':' after case value").p
         IN  Ret(p1, ast_add_case(sw, ast_create_case(value.node)))
    ELSE IF check(p, "TOKEN_DEFAULT")
    THEN LET p1 == consume(advance(p), "TOKEN_COLON",
                           "Expected ':' after 'default'").p
         IN  Ret(p1, ast_add_case(sw, ast_create_default))
    ELSE IF Len(sw.cases) > 0
    THEN LET stmt == Call("parse_statement", p) IN
         Ret(stmt.p, IF stmt.node # Null THEN AddToCurrentCase(sw, stmt.node)
                     ELSE sw)
    ELSE Ret(advance(error_at(p, peek(p),
                              "Statement outside of case in switch")), sw)

SwitchLoop(p, sw) ==
    IF ~check(p, "TOKEN_RBRACE") /\ ~is_at_end(p)
    THEN LET it == SwitchIteration(p, sw) IN
         IF Diverges(p, it.p) THEN Ret([it.p EXCEPT !.hang = TRUE], it.node)
         ELSE SwitchLoop(it.p, it.node)
    ELSE Ret(p, sw)

\* parse_statement at a type keyword.
ParseDeclaration(p) ==
    LET p1 == advance(p)
        type == previous(p1).lexeme
        name_token == consume(p1, "TOKEN_IDENTIFIER", "Expected variable name")
        p2 == name_token.p
    IN  IF name_token.node = Null THEN Ret(p2, Null)
        ELSE IF check(p2, "TOKEN_LBRACKET")
        THEN LET p3 == advance(p2)
                 size == IF ~check(p3, "TOKEN_RBRACKET")
                         THEN Call("parse_expression", p3) ELSE Ret(p3, Null)
                 p4 == consume(size.p, "TOKEN_RBRACKET",
                               "Expected ']' after array size").p
                 p5 == consume(p4, "TOKEN_SEMICOLON",
                               "Expected ';' after declaration").p
             IN  Ret(p5, ast_create_array_declaration(type,
                                                      name_token.node.lexeme,
                                                      size.node))
        ELSE LET initializer == IF check(p2, "TOKEN_ASSIGN")
                                THEN Call("parse_expression", advance(p2))
                                ELSE Ret(p2, Null)
                 p3 == consume(initializer.p, "TOKEN_SEMICOLON",
                               "Expected ';' after declaration").p
             IN  Ret(p3, ast_create_declaration(type, name_token.node.lexeme,
                                                initializer.node))

\* parse_statement after match(parser, TOKEN_IF).
ParseIf(p) ==
    LET p1 == consume(p, "TOKEN_LPAREN", "Expected '(' after 'if'").p
        condition == Call("parse_expression", p1)
        p2 == consume(condition.p, "TOKEN_RPAREN",
                      "Expected ')' after condition").p
        then_branch == BlockOrStatement(p2)
        else_branch == IF check(then_branch.p, "TOKEN_ELSE")
                       THEN BlockOrStatement(advance(then_branch.p))
                       ELSE Ret(then_branch.p, Null)
    IN  Ret(else_branch.p,
            ast_create_if(condition.node, then_branch.node, else_branch.node))

\* parse_statement after match(parser, TOKEN_WHILE).
ParseWhile(p) ==
    LET p1 == consume(p, "TOKEN_LPAREN", "Expected '(' after 'while'").p
        condition == Call("parse_expression", p1)
        p2 == consume(condition.p, "TOKEN_RPAREN",
                      "Expected ')' after condition").p
        body == BlockOrStatement(p2)
    IN  Ret(body.p, ast_create_while(condition.node, body.node))

\* parse_statement after match(parser, TOKEN_FOR).
ParseFor(p) ==
    LET p1 == consume(p, "TOKEN_LPAREN", "Expected '(' after 'for'").p
        init == IF ~check(p1, "TOKEN_SEMICOLON")
                THEN IF is_type(peek(p1).type) THEN Call("parse_statement", p1)
                     ELSE LET e == Call("parse_expression", p1) IN
                          Ret(consume(e.p, "TOKEN_SEMICOLON",
                                      "Expected ';' after loop initializer").p,
                              e.node)
                ELSE Ret(advance(p1), Null)
        condition == IF ~check(init.p, "TOKEN_SEMICOLON")
                     THEN Call("parse_expression", init.p) ELSE Ret(init.p, Null)
        p2 == consume(condition.p, "TOKEN_SEMICOLON",
                      "Expected ';' after loop condition").p
        increment == IF ~check(p2, "TOKEN_RPAREN")
                     THEN Call("parse_expression", p2) ELSE Ret(p2, Null)
        p3 == consume(increment.p, "TOKEN_RPAREN",
                      "Expected ')' after for clauses").p
        body == BlockOrStatement(p3)
    IN  Ret(body.p, ast_create_for(init.node, condition.node, increment.node,
                                   body.node))

\* parse_statement after match(parser, TOKEN_RETURN).
ParseReturn(p) ==
    LET value == IF ~check(p, "TOKEN_SEMICOLON")
                 THEN Call("parse_expression", p) ELSE Ret(p, Null)
    IN  Ret(consume(value.p, "TOKEN_SEMICOLON", "Expected ';' after return").p,
            ast_create_return(value.node))

\* parse_statement after match(parser, TOKEN_DO).
ParseDoWhile(p) ==
    LET body == BlockOrStatement(p)
        p1 == consume(body.p, "TOKEN_WHILE", "Expected 'while' after do block").p
        p2 == consume(p1, "TOKEN_LPAREN", "Expected '(' after 'while'").p
        condition == Call("parse_expression", p2)
        p3 == consume(condition.p, "TOKEN_RPAREN",
                      "Expected ')' after condition").p
        p4 == consume(p3, "TOKEN_SEMICOLON", "Expected ';' after do-while").p
    IN  Ret(p4, ast_create_do_while(body.node, condition.node))

\* parse_statement after match(parser, TOKEN_SWITCH).
ParseSwitch(p) ==
    LET p1 == consume(p, "TOKEN_LPAREN", "Expected '(' after 'switch'").p
        expression == Call("parse_expression", p1)
        p2 == consume(expression.p, "TOKEN_RPAREN",
                      "Expected ')' after switch expression").p
        p3 == consume(p2, "TOKEN_LBRACE", "Expected '{' before switch body").p
        body == SwitchLoop(p3, ast_create_switch(expression.node))
    IN  Ret(consume(body.p, "TOKEN_RBRACE", "Expected '}' after switch body").p,
            body.node)

\* parse_statement after match(parser, TOKEN_GOTO).
ParseGoto(p) ==
    LET label == consume(p, "TOKEN_IDENTIFIER",
                         "Expected label name after 'goto'")
        p1 == consume(label.p, "TOKEN_SEMICOLON", "Expected ';' after goto").p
    IN  IF label.node # Null THEN Ret(p1, ast_create_goto(label.node.lexeme))
        ELSE Ret(p1, Null)

\* parse_statement from the block statement on.
ParseBlockOrExpression(p) ==
    IF check(p, "TOKEN_LBRACE") THEN Call("parse_block", advance(p))
    ELSE LET expr == Call("parse_expression", p) IN
         Ret(consume(expr.p, "TOKEN_SEMICOLON",
                     "Expected ';' after expression").p, expr.node)

ParseLabelOrLaterNoRestore(p) == ParseBlockOrExpression(advance(p))

\* parse_statement at an identifier: the lookahead for a label.
ParseLabelOrLater(p) ==
    LET saved == p.current
        ahead == advance(p)
    IN  IF check(ahead, "TOKEN_COLON")
        THEN LET p1 == advance([ahead EXCEPT !.current = saved])
                 label == previous(p1)
                 p2 == advance(p1)
                 stmt == Call("parse_statement", p2)
             IN  Ret(stmt.p, ast_create_label(label.lexeme, stmt.node))
        ELSE ParseBlockOrExpression([ahead EXCEPT !.current = saved])

parse_statement(p) ==
    CASE is_type(peek(p).type) -> ParseDeclaration(p)
      [] check(p, "TOKEN_IF") -> ParseIf(advance(p))
      [] check(p, "TOKEN_WHILE") -> ParseWhile(advance(p))
      [] check(p, "TOKEN_FOR") -> ParseFor(advance(p))
      [] check(p, "TOKEN_RETURN") -> ParseReturn(advance(p))
      [] check(p, "TOKEN_BREAK") ->
           Ret(consume(advance(p), "TOKEN_SEMICOLON",
                       "Expected ';' after break").p, ast_create_break)
      [] check(p, "TOKEN_CONTINUE") ->
           Ret(consume(advance(p), "TOKEN_SEMICOLON",
                       "Expected ';' after continue").p, ast_create_continue)
      [] check(p, "TOKEN_DO") -> ParseDoWhile(advance(p))
      [] check(p, "TOKEN_SWITCH") -> ParseSwitch(advance(p))
      [] check(p, "TOKEN_GOTO") -> ParseGoto(advance(p))
      [] check(p, "TOKEN_IDENTIFIER") -> ParseLabelOrLater(p)
      [] OTHER -> ParseBlockOrExpression(p)

\* The parameter loop of parse_function.
RECURSIVE ParameterLoop(_, _)
ParameterLoop(p, params) ==
    IF ~is_type(peek(p).type)
    THEN Ret(error_at(p, peek(p), "Expected parameter type"), params)
    ELSE LET p1 == advance(p)
             name_token == consume(p1, "TOKEN_IDENTIFIER",
                                   "Expected parameter name")
             p2 == name_token.p
         IN  IF name_token.node = Null THEN Ret(p2, params)
             ELSE LET is_array == check(p2, "TOKEN_LBRACKET")
                      p3 == IF is_array
                            THEN consume(advance(p2), "TOKEN_RBRACKET",
                                         "Expected ']' after '['").p
                            ELSE p2
                      grown == Append(params,
                                      parameter_create(previous(p1).lexeme,
                                                       name_token.node.lexeme,
                                                       is_array))
                  IN  IF check(p3, "TOKEN_COMMA")
                      THEN ParameterLoop(advance(p3), grown)
                      ELSE Ret(p3, grown)

parse_function(p) ==
    IF ~is_type(peek(p).type)
    THEN Ret(error_at(p, peek(p), "Expected return type"), Null)
    ELSE LET p1 == advance(p)
             name_token == consume(p1, "TOKEN_IDENTIFIER",
                                   "Expected function name")
         IN  IF name_token.node = Null THEN Ret(name_token.p, Null)
             ELSE LET p2 == consume(name_token.p, "TOKEN_LPAREN",
                                    "Expected '(' after function name").p
                      params == IF ~check(p2, "TOKEN_RPAREN")
                                THEN ParameterLoop(p2, <<>>) ELSE Ret(p2, <<>>)
                      p3 == consume(params.p, "TOKEN_RPAREN",
                                    "Expected ')' after parameters").p
                      p4 == consume(p3, "TOKEN_LBRACE",
                                    "Expected '{' before function body").p
                      body == Call("parse_block", p4)
                  IN  Ret(body.p,
                          ast_create_function(previous(p1).lexeme,
                                              name_token.node.lexeme,
                                              params.node, body.node))

Call(f, p) ==
    CASE Halted(p)               -> Ret(p, Null)
      [] f = "parse_statement"   -> parse_statement(p)
      [] f = "parse_block"       -> parse_block(p)
      [] f = "parse_expression"  -> parse_expression(p)
      [] f = "parse_assignment"  -> parse_assignment(p)
      [] f = "parse_ternary"     -> parse_ternary(p)
      [] f = "parse_logical_or"  -> parse_logical_or(p)
      [] f = "parse_logical_and" -> parse_logical_and(p)
      [] f = "parse_bitwise_or"  -> parse_bitwise_or(p)
      [] f = "parse_bitwise_xor" -> parse_bitwise_xor(p)
      [] f = "parse_bitwise_and" -> parse_bitwise_and(p)
      [] f = "parse_equality"    -> parse_equality(p)
      [] f = "parse_comparison"  -> parse_comparison(p)
      [] f = "parse_shift"       -> parse_shift(p)
      [] f = "parse_term"        -> parse_term(p)
      [] f = "parse_factor"      -> parse_factor(p)
      [] f = "parse_unary"       -> parse_unary(p)
      [] f = "parse_postfix"     -> parse_postfix(p)
      [] f = "parse_primary"     -> parse_primary(p)
      [] f = "parse_function"    -> parse_function(p)

\* while (!is_at_end(parser) && !is_type(peek(parser)->type)) advance(parser);
RECURSIVE SkipToType(_)
SkipToType(p) ==
    IF ~is_at_end(p) /\ ~is_type(peek(p).type) THEN SkipToType(advance(p))
    ELSE p

\* What an iteration of the loop of parse does with what parse_function
\* returned: if (function) ast_add_function(program, function); else skip to
\* the next type.
AddOrSkip(function, functions) ==
    IF function.node # Null
    THEN Ret(function.p, Append(functions, function.node))
    ELSE Ret(SkipToType(function.p), functions)

\* One iteration of the loop of parse over the functions of the file: the
\* Parser after it and the functions of the Program node.
ParseIteration(p, functions) ==
    AddOrSkip(Call("parse_function", p), functions)

ast_create_program(functions) ==
    ast_create_node("NODE_PROGRAM") @@ [functions |-> functions]

\* What parse returns once its loop has ended.
ParseResult(p, functions) ==
    IF p.had_error THEN Null ELSE ast_create_program(functions)

RECURSIVE ParseLoop(_, _), AfterIteration(_, _)

\* The loop of parse after an iteration that began at the Parser `before`.
AfterIteration(before, it) ==
    IF Diverges(before, it.p) THEN Ret([it.p EXCEPT !.hang = TRUE], it.node)
    ELSE ParseLoop(it.p, it.node)

ParseLoop(p, functions) ==
    IF ~is_at_end(p) THEN AfterIteration(p, ParseIteration(p, functions))
    ELSE Ret(p, functions)

\* How a call of parse ends once its loop has: "returned", "crashed" on the
\* null dereference, "hung" in a loop that never ends, and the tree returned.
ParseOutcome(end) ==
    IF end.p.null_deref THEN [outcome |-> "crashed", ast |-> Null]
    ELSE IF end.p.hang THEN [outcome |-> "hung", ast |-> Null]
    ELSE [outcome |-> "returned", ast |-> ParseResult(end.p, end.node)]

parse(tokens) == ParseOutcome(ParseLoop(parser_create(tokens), <<>>))

(***************************************************************************)
(* The symbol table (src/unnamed/part_001).  A table's list of symbols is  *)
(* a sequence whose first element is the head of the list.  The tables of  *)
(* an analyzer are kept in a sequence and a table names its parent by the  *)
(* parent's place in it, 0 for none.                                       *)
(***************************************************************************)
symbol_table_create(scope_name, parent) ==
    [scope_name |-> scope_name, head |-> <<>>, parent |-> parent]

symbol_create(name, type, scope, line) ==
    [name |-> name, type |-> type, scope |-> scope, line_declared |-> line,
     is_function |-> FALSE, is_array |-> FALSE]

symbol_table_insert(table, symbol) ==
    [table EXCEPT !.head = <<symbol>> \o @]

\* The first symbol of the name in the list of the table, Null when none.
symbol_table_lookup_local(table, name) ==
    LET found == {i \in 1..Len(table.head) : table.head[i].name = name} IN
    IF found = {} THEN Null
    ELSE table.head[CHOOSE i \in found : \A j \in found : i <= j]

\* symbol_table_lookup that does not search the parent scopes.
symbol_table_lookup_no_parent(tables, table, name) ==
    symbol_table_lookup_local(tables[table], name)

RECURSIVE symbol_table_lookup(_, _, _)
symbol_table_lookup(tables, table, name) ==
    LET symbol == symbol_table_lookup_local(tables[table], name) IN
    IF symbol # Null THEN symbol
    ELSE IF tables[table].parent # 0
    THEN symbol_table_lookup(tables, tables[table].parent, name)
    ELSE Null

(***************************************************************************)
(* The scope checker (src/src/semantic.c).  The analyzer holds its tables  *)
(* (the global scope first, the current scope last), had_error, the lines  *)
(* written to the error stream and, as a record of the walk, the statement *)
(* nodes analyze_statement was called on.                                  *)
(***************************************************************************)
semantic_analyzer_create ==
    [tables |-> <<symbol_table_create("global", 0)>>, had_error |-> FALSE,
     stderr |-> <<>>, visited |-> {}]

global_scope == 1

current_scope(a) == Len(a.tables)

semantic_error(a, line, message) ==
    [a EXCEPT !.had_error = TRUE,
              !.stderr = Append(@, [line |-> line, message |-> message])]

enter_scope(a, scope_name) ==
    [a EXCEPT !.tables = Append(@, symbol_table_create(scope_name,
                                                       current_scope(a)))]

exit_scope_stay(a) == a

\* The table left is no longer reachable from the analyzer.
exit_scope(a) ==
    IF a.tables[current_scope(a)].parent # 0
    THEN [a EXCEPT !.tables = SubSeq(@, 1, a.tables[current_scope(a)].parent)]
    ELSE a

std_funcs == {"printf", "scanf", "strlen", "strcpy", "malloc", "free"}

RECURSIVE analyze_expression(_, _), AnalyzeArguments(_, _, _),
          analyze_statement(_, _), AnalyzeStatements(_, _, _)

\* for (i = 0; i < arg_count; i++) analyze_expression(analyzer, arguments[i]);
AnalyzeArguments(a, arguments, i) ==
    IF i <= Len(arguments)
    THEN AnalyzeArguments(analyze_expression(a, arguments[i]), arguments, i + 1)
    ELSE a

analyze_expression(a, node) ==
    IF node = Null THEN a
    ELSE CASE node.type = "NODE_IDENTIFIER" ->
                IF symbol_table_lookup(a.tables, current_scope(a), node.name)
                       = Null
                THEN semantic_error(a, node.line,
                         "Undeclared variable '" \o node.name \o "'")
                ELSE a
           [] node.type = "NODE_BINARY_OP" ->
                analyze_expression(analyze_expression(a, node.left), node.right)
           [] node.type = "NODE_UNARY_OP" ->
                analyze_expression(a, node.operand)
           [] node.type = "NODE_FUNCTION_CALL" ->
                LET symbol == symbol_table_lookup(a.tables, global_scope,
                                                  node.name)
                    a1 == IF symbol = Null /\ node.name \notin std_funcs
                          THEN semantic_error(a, node.line,
                                   "Undefined function '" \o node.name \o "'")
                          ELSE a
                IN  AnalyzeArguments(a1, node.arguments, 1)
           [] node.type = "NODE_ARRAY_ACCESS" ->
                LET symbol == symbol_table_lookup(a.tables, current_scope(a),
                                                  node.name)
                    a1 == IF symbol = Null
                          THEN semantic_error(a, node.line,
                                   "Undeclared array '" \o node.name \o "'")
                          ELSE IF ~symbol.is_array
                          THEN semantic_error(a, node.line,
                                   "'" \o node.name \o "' is not an array")
                          ELSE a
                IN  analyze_expression(a1, node.index)
           [] node.type = "NODE_ASSIGNMENT" ->
                analyze_expression(analyze_expression(a, node.target),
                                   node.value)
           [] OTHER -> a

\* for (i = 0; i < statement_count; i++) analyze_statement(analyzer, statements[i]);
AnalyzeStatements(a, statements, i) ==
    IF i <= Len(statements)
    THEN AnalyzeStatements(analyze_statement(a, statements[i]), statements,
                           i + 1)
    ELSE a

AnalyzeDeclarationNone(a, node) == a

\* The NODE_DECLARATION case of analyze_statement.
AnalyzeDeclaration(a, node) ==
    LET existing == symbol_table_lookup_local(a.tables[current_scope(a)],
                                              node.name)
        symbol == [symbol_create(node.name, node.data_type,
                                 a.tables[current_scope(a)].scope_name,
                                 node.line)
                       EXCEPT !.is_array = node.is_array]
        a1 == IF existing # Null
              THEN semantic_error(a, node.line,
                       "Variable '" \o node.name
                           \o "' already declared in this scope")
              ELSE [a EXCEPT !.tables[current_scope(a)] =
                                 symbol_table_insert(@, symbol)]
    IN  analyze_expression(analyze_expression(a1, node.initializer),
                           node.array_size)

analyze_statement(a0, node) ==
    IF node = Null THEN a0
    ELSE LET a == [a0 EXCEPT !.visited = @ \cup {node}] IN
         CASE node.type = "NODE_DECLARATION" -> AnalyzeDeclaration(a, node)
           [] node.type = "NODE_IF" ->
                analyze_statement(
                    analyze_statement(analyze_expression(a, node.condition),
                                      node.then_branch),
                    node.else_branch)
           [] node.type = "NODE_WHILE" ->
                analyze_statement(analyze_expression(a, node.condition),
                                  node.body)
           [] node.type = "NODE_FOR" ->
                analyze_statement(
                    analyze_expression(
                        analyze_expression(analyze_statement(a, node.init),
                                           node.condition),
                        node.increment),
                    node.body)
           [] node.type = "NODE_RETURN" -> analyze_expression(a, node.value)
           [] node.type = "NODE_BLOCK" ->
                AnalyzeStatements(a, node.statements, 1)
           [] node.type \in {"NODE_BREAK", "NODE_CONTINUE"} -> a
           [] OTHER -> analyze_expression(a, node)

\* for (i = 0; i < param_count; i++) symbol_table_insert(current_scope, ...);
RECURSIVE InsertParameters(_, _, _)
InsertParameters(a, node, i) ==
    IF i <= Len(node.parameters)
    THEN LET param == node.parameters[i]
             symbol == [symbol_create(param.name, param.type, node.name,
                                      node.line)
                            EXCEPT !.is_array = param.is_array]
         IN  InsertParameters(
                 [a EXCEPT !.tables[current_scope(a)] =
                               symbol_table_insert(@, symbol)],
                 node, i + 1)
    ELSE a

\* Whether analyze_function returns at its test for a function declared
\* already.
AlreadyDeclared(a, node) ==
    symbol_table_lookup_local(a.tables[global_scope], node.name) # Null

\* analyze_function up to its call of analyze_statement on the body.
EnterFunction(a, node) ==
    IF AlreadyDeclared(a, node)
    THEN semantic_error(a, node.line,
             "Function '" \o node.name \o "' already declared")
    ELSE LET symbol == [symbol_create(node.name, node.return_type, "global",
                                      node.line)
                            EXCEPT !.is_function = TRUE]
             a1 == [a EXCEPT !.tables[global_scope] =
                                 symbol_table_insert(@, symbol)]
         IN  InsertParameters(enter_scope(a1, node.name), node, 1)

analyze_function(a, node) ==
    IF node.type # "NODE_FUNCTION" THEN a
    ELSE IF AlreadyDeclared(a, node) THEN EnterFunction(a, node)
    ELSE exit_scope(analyze_statement(EnterFunction(a, node), node.body))

RECURSIVE AnalyzeFunctions(_, _, _)
AnalyzeFunctions(a, functions, i) ==
    IF i <= Len(functions)
    THEN AnalyzeFunctions(analyze_function(a, functions[i]), functions, i + 1)
    ELSE a

analyze_node(a, node) ==
    IF node = Null THEN a
    ELSE IF node.type = "NODE_PROGRAM"
    THEN AnalyzeFunctions(a, node.functions, 1)
    ELSE a

\* Whether the program passes the check.
analyze_semantics(node) ==
    IF node = Null THEN FALSE
    ELSE ~analyze_node(semantic_analyzer_create, node).had_error

(***************************************************************************)
(* The nodes of a tree, read independently of any walk of the program.     *)
(***************************************************************************)
\* The nodes a node holds directly, whatever its kind.
Children(node) ==
    LET Each(nodes) == {nodes[i] : i \in 1..Len(nodes)} IN
    CASE node.type = "NODE_BINARY_OP" -> {node.left, node.right}
      [] node.type = "NODE_UNARY_OP" -> {node.operand}
      [] node.type = "NODE_FUNCTION_CALL" -> Each(node.arguments)
      [] node.type = "NODE_ARRAY_ACCESS" -> {node.index}
      [] node.type \in {"NODE_ASSIGNMENT", "NODE_COMPOUND_ASSIGN"} ->
           {node.target, node.value}
      [] node.type = "NODE_TERNARY" ->
           {node.condition, node.then_expr, node.else_expr}
      [] node.type = "NODE_MEMBER_ACCESS" -> {node.object}
      [] node.type = "NODE_SIZEOF" -> {node.expression}
      [] node.type = "NODE_DECLARATION" -> {node.array_size, node.initializer}
      [] node.type = "NODE_IF" ->
           {node.condition, node.then_branch, node.else_branch}
      [] node.type \in {"NODE_WHILE", "NODE_DO_WHILE"} ->
           {node.condition, node.body}
      [] node.type = "NODE_FOR" ->
           {node.init, node.condition, node.increment, node.body}
      [] node.type = "NODE_RETURN" -> {node.value}
      [] node.type = "NODE_BLOCK" -> Each(node.statements)
      [] node.type = "NODE_SWITCH" -> {node.expression} \cup Each(node.cases)
      [] node.type \in {"NODE_CASE", "NODE_DEFAULT"} ->
           {node.value} \cup Each(node.statements)
      [] node.type = "NODE_LABEL" -> {node.statement}
      [] OTHER -> {}

RECURSIVE Descendants(_)

\* Every node at or below a node.
Descendants(node) ==
    IF node = Null THEN {}
    ELSE {node} \cup UNION {Descendants(child) : child \in Children(node)}

(***************************************************************************)
(* The translator (translator.c).  The output buffer is the sequence of    *)
(* the lines appended to it, each without the newline that ends it: every  *)
(* write to the buffer is a whole line.  snprintf into a buffer of a given *)
(* size keeps at most size - 1 characters.                                 *)
(***************************************************************************)
snprintf(size, text) ==
    IF Len(text) > size - 1 THEN SubSeq(text, 1, size - 1) ELSE text

\* The decimal numeral of a natural number, as %d prints it.
RECURSIVE Decimal(_)
Decimal(n) ==
    LET digit == SubSeq("0123456789", (n % 10) + 1, (n % 10) + 1)
    IN  IF n < 10 THEN digit ELSE Decimal(n \div 10) \o digit

translation_context_create == [output |-> <<>>, indent_level |-> 0]

RECURSIVE Indentation(_)
Indentation(level) == IF level <= 0 THEN "" ELSE "  " \o Indentation(level - 1)

append_line(ctx, text) ==
    [ctx EXCEPT !.output = Append(@, Indentation(ctx.indent_level) \o text)]

\* The phrases translate_function_call has for the library functions it
\* knows, other than printf and strlen.
LibraryPhrases ==
    {<<"scanf", "read input from the user">>,
     <<"strcpy", "copy one text string to another">>,
     <<"malloc", "allocate memory dynamically">>,
     <<"free", "release previously allocated memory">>,
     <<"strcmp", "compare two text strings">>,
     <<"strncmp", "compare a specified number of characters in two text strings">>,
     <<"strcat", "concatenate two text strings">>,
     <<"strncpy", "copy a specified number of characters from one text string to another">>,
     <<"sprintf", "format text and store it in a string">>,
     <<"fprintf", "write formatted output to a file">>,
     <<"fscanf", "read formatted input from a file">>,
     <<"fopen", "open a file">>,
     <<"fclose", "close an open file">>,
     <<"fread", "read data from a file">>,
     <<"fwrite", "write data to a file">>,
     <<"fgets", "read a line of text from a file">>,
     <<"fputs", "write a line of text to a file">>,
     <<"feof", "check if end of file has been reached">>,
     <<"fseek", "move the file position indicator">>,
     <<"ftell", "get the current file position">>,
     <<"rewind", "reset the file position to the beginning">>,
     <<"calloc", "allocate and initialise memory to zero">>,
     <<"realloc", "resize previously allocated memory">>,
     <<"memcpy", "copy a block of memory">>,
     <<"memset", "fill a block of memory with a specified value">>,
     <<"memcmp", "compare two blocks of memory">>,
     <<"atoi", "convert text to an integer">>,
     <<"atof", "convert text to a floating-point number">>,
     <<"atol", "convert text to a long integer">>,
     <<"itoa", "convert an integer to text">>,
     <<"abs", "calculate the absolute value">>,
     <<"sqrt", "calculate the square root">>,
     <<"pow", "raise a number to a power">>,
     <<"sin", "calculate the sine">>,
     <<"cos", "calculate the cosine">>,
     <<"tan", "calculate the tangent">>,
     <<"log", "calculate the natural logarithm">>,
     <<"exp", "calculate the exponential">>,
     <<"ceil", "round up to the nearest integer">>,
     <<"floor", "round down to the nearest integer">>,
     <<"rand", "generate a pseudo-random number">>,
     <<"srand", "seed the random number generator">>,
     <<"time", "get the current time">>,
     <<"exit", "terminate the programme">>,
     <<"assert", "verify a condition and abort if false">>,
     <<"getchar", "read a character from standard input">>,
     <<"putchar", "write a character to standard output">>,
     <<"puts", "write a string to standard output">>,
     <<"gets", "read a string from standard input">>,
     <<"isalpha", "check if a character is alphabetic">>,
     <<"isdigit", "check if a character is a digit">>,
     <<"isspace", "check if a character is whitespace">>,
     <<"toupper", "convert a character to uppercase">>,
     <<"tolower", "convert a character to lowercase">>,
     <<"qsort", "sort an array using quicksort">>,
     <<"bsearch", "search a sorted array using binary search">>}

RECURSIVE translate_expression(_)

translate_binary_operator(op, left, right) ==
    LET left_str == translate_expression(left)
        right_str == translate_expression(right)
        Both(before, between) ==
            before \o left_str \o between \o right_str
    IN  snprintf(1024,
          CASE op = "+" -> Both("the sum of ", " and ")
            [] op = "-" -> Both("the difference between ", " and ")
            [] op = "*" -> Both("the product of ", " and ")
            [] op = "/" -> Both("", " divided by ")
            [] op = "%" ->
                 "the remainder when " \o left_str \o " is divided by "
                     \o right_str
            [] op = "==" -> Both("", " is equal to ")
            [] op = "!=" -> Both("", " is not equal to ")
            [] op = "<" -> Both("", " is less than ")
            [] op = "<=" -> Both("", " is less than or equal to ")
            [] op = ">" -> Both("", " is greater than ")
            [] op = ">=" -> Both("", " is greater than or equal to ")
            [] op = "&&" -> Both("both ", " and ")
            [] op = "||" -> Both("either ", " or ")
            [] op = "&" -> Both("the bitwise AND of ", " and ")
            [] op = "|" -> Both("the bitwise OR of ", " and ")
            [] op = "^" -> Both("the bitwise XOR of ", " and ")
            [] op = "<<" -> Both("", " left-shifted by ") \o " bits"
            [] op = ">>" -> Both("", " right-shifted by ") \o " bits"
            [] OTHER -> Both("", " " \o op \o " "))

translate_unary_operator(op, operand) ==
    LET operand_str == translate_expression(operand)
    IN  snprintf(512,
          CASE op = "!" -> "not " \o operand_str
            [] op = "-" -> "negative " \o operand_str
            [] op = "+" -> operand_str
            [] op = "++" -> operand_str \o " incremented by 1"
            [] op = "--" -> operand_str \o " decremented by 1"
            [] op = "++post" -> "increment " \o operand_str \o " by 1"
            [] op = "--post" -> "decrement " \o operand_str \o " by 1"
            [] op = "~" -> "the bitwise complement of " \o operand_str
            [] op = "&" -> "the address of " \o operand_str
            [] op = "*" ->
                 "the value stored at the memory location referenced by "
                     \o operand_str
            [] OTHER -> op \o " " \o operand_str)

\* The loop of translate_function_call that joins the arguments with ", "
\* in a buffer of 1024 characters.
RECURSIVE JoinArguments(_, _)
JoinArguments(arguments, from) ==
    IF from > Len(arguments) THEN ""
    ELSE (IF from > 1 THEN ", " ELSE "")
             \o translate_expression(arguments[from])
             \o JoinArguments(arguments, from + 1)

\* char args_str[1024]
ARGS_STR_SIZE == 1024

\* Whether translate_function_call, given the node, writes beyond the end
\* of args_str: the call has no phrase of its own and the joined text of
\* its arguments and the terminating NUL need more than the buffer holds.
ArgumentsOverrun(node) ==
    /\ node.type = "NODE_FUNCTION_CALL"
    /\ node.name \notin {"printf", "strlen"}
                        \cup {entry[1] : entry \in LibraryPhrases}
    /\ Len(node.arguments) > 0
    /\ Len(JoinArguments(node.arguments, 1)) + 1 > ARGS_STR_SIZE

\* Whether the translation of a statement overruns args_str: a call at or
\* below it does.  (Every call at or below a statement of the programmes
\* translated here is translated.)
Overruns(node) == \E call \in Descendants(node) : ArgumentsOverrun(call)

translate_function_call(node) ==
    LET func_name == node.name
        arguments == node.arguments
        known == {entry \in LibraryPhrases : entry[1] = func_name}
    IN  snprintf(2048,
          CASE func_name = "printf" ->
                 IF Len(arguments) > 0
                 THEN IF arguments[1].type = "NODE_LITERAL"
                      THEN "display the message " \o arguments[1].value
                      ELSE "display formatted output to the user"
                 ELSE "display output to the user"
            [] func_name = "strlen" ->
                 IF Len(arguments) > 0
                 THEN "determine the length of the text stored in "
                          \o translate_expression(arguments[1])
                 ELSE "determine the length of a text string"
            [] func_name \notin {"printf", "strlen"} /\ known # {} ->
                 (CHOOSE entry \in known : TRUE)[2]
            [] OTHER ->
                 IF Len(arguments) > 0
                 THEN "call the '" \o func_name
                          \o "' function with arguments "
                          \o JoinArguments(arguments, 1)
                 ELSE "call the '" \o func_name \o "' function")

translate_expression(node) ==
    IF node = Null THEN "nothing"
    ELSE CASE node.type = "NODE_LITERAL" ->
                snprintf(1024,
                  CASE node.data_type = "number" -> "the value " \o node.value
                    [] node.data_type = "string" -> node.value
                    [] node.data_type = "char" ->
                         "the character " \o node.value
                    [] OTHER -> node.value)
           [] node.type = "NODE_IDENTIFIER" ->
                snprintf(1024, "'" \o node.name \o "'")
           [] node.type = "NODE_BINARY_OP" ->
                translate_binary_operator(node.operator, node.left, node.right)
           [] node.type = "NODE_UNARY_OP" ->
                translate_unary_operator(node.operator, node.operand)
           [] node.type = "NODE_FUNCTION_CALL" -> translate_function_call(node)
           [] node.type = "NODE_ARRAY_ACCESS" ->
                snprintf(1024, "the element at position "
                                   \o translate_expression(node.index)
                                   \o " in the array '" \o node.name \o "'")
           [] node.type = "NODE_ASSIGNMENT" ->
                snprintf(1024, "set " \o translate_expression(node.target)
                                   \o " to " \o translate_expression(node.value))
           [] node.type = "NODE_MEMBER_ACCESS" ->
                snprintf(1024,
                  IF node.is_arrow
                  THEN "the '" \o node.member
                           \o "' member of the structure pointed to by "
                           \o translate_expression(node.object)
                  ELSE "the '" \o node.member \o "' member of "
                           \o translate_expression(node.object))
           [] node.type = "NODE_TERNARY" ->
                snprintf(1024, "if " \o translate_expression(node.condition)
                                   \o " then "
                                   \o translate_expression(node.then_expr)
                                   \o ", otherwise "
                                   \o translate_expression(node.else_expr))
           [] node.type = "NODE_SIZEOF" ->
                snprintf(1024,
                  IF node.type_name # ""
                  THEN "the size in bytes of type '" \o node.type_name \o "'"
                  ELSE "the size in bytes of "
                           \o translate_expression(node.expression))
           [] node.type = "NODE_CAST" ->
                snprintf(1024, translate_expression(node.expression)
                                   \o " converted to type '"
                                   \o node.target_type \o "'")
           [] node.type = "NODE_COMPOUND_ASSIGN" ->
                LET target_str == translate_expression(node.target)
                    value_str == translate_expression(node.value)
                    op == node.operator
                    With(before, between) ==
                        before \o target_str \o between \o value_str
                IN  snprintf(1024,
                      CASE op = "+=" -> With("increase ", " by ")
                        [] op = "-=" -> With("decrease ", " by ")
                        [] op = "*=" -> With("multiply ", " by ")
                        [] op = "/=" -> With("divide ", " by ")
                        [] op = "%=" ->
                             With("set ", " to the remainder when divided by ")
                        [] op = "&=" -> With("bitwise AND ", " with ")
                        [] op = "|=" -> With("bitwise OR ", " with ")
                        [] op = "^=" -> With("bitwise XOR ", " with ")
                        [] op = "<<=" -> With("left-shift ", " by ") \o " bits"
                        [] op = ">>=" -> With("right-shift ", " by ") \o " bits"
                        [] OTHER ->
                             "apply " \o op \o " to " \o target_str
                                 \o " with " \o value_str)
           [] OTHER -> "an expression"

\* if (line[0] >= 'a' && line[0] <= 'z') line[0] = line[0] - 'a' + 'A';
CapitalizeFirst(line) ==
    LET lower == "abcdefghijklmnopqrstuvwxyz"
        upper == "ABCDEFGHIJKLMNOPQRSTUVWXYZ"
        first == SubSeq(line, 1, 1)
        places == {i \in 1..26 : SubSeq(lower, i, i) = first}
    IN  IF line = "" \/ places = {} THEN line
        ELSE LET i == CHOOSE i \in places : TRUE
             IN  SubSeq(upper, i, i) \o SubSeq(line, 2, Len(line))

\* StepPrefix that gives no prefix to any step.
StepPrefixNone(step_number) == ""

\* snprintf(step_prefix, 32, "%d. ", step_number) when the number is positive.
StepPrefix(step_number) ==
    IF step_number > 0 THEN snprintf(32, Decimal(step_number) \o ". ") ELSE ""

RECURSIVE translate_statement(_, _, _)

\* for (i = from - 1; i < count; i++)
\*     translate_statement(ctx, statements[i], numbered ? i + 1 : 0);
RECURSIVE TranslateFrom(_, _, _, _)
TranslateFrom(ctx, statements, from, numbered) ==
    IF from > Len(statements) THEN ctx
    ELSE TranslateFrom(translate_statement(ctx, statements[from],
                                           IF numbered THEN from ELSE 0),
                       statements, from + 1, numbered)

TranslateNestedNoReturn(ctx, body) ==
    translate_statement([ctx EXCEPT !.indent_level = @ + 1], body, 0)

\* A branch or a body, one level deeper: the statements of a block each
\* with step number 0, any other statement itself with step number 0.
TranslateNested(ctx, body) ==
    LET inner == [ctx EXCEPT !.indent_level = @ + 1]
        done == IF body.type = "NODE_BLOCK"
                THEN TranslateFrom(inner, body.statements, 1, FALSE)
                ELSE translate_statement(inner, body, 0)
    IN  [done EXCEPT !.indent_level = @ - 1]

\* The loop of the switch case over the cases from a position on.
RECURSIVE TranslateCases(_, _, _)
TranslateCases(ctx, cases, from) ==
    IF from > Len(cases) THEN ctx
    ELSE LET case_node == cases[from]
             headed ==
                 IF case_node.type = "NODE_CASE"
                 THEN append_line(ctx,
                          snprintf(1024, "When it equals "
                              \o translate_expression(case_node.value) \o ":"))
                 ELSE append_line(ctx, "Otherwise (default):")
             inner == [headed EXCEPT !.indent_level = @ + 1]
             done == TranslateFrom(inner, case_node.statements, 1, FALSE)
         IN  TranslateCases([done EXCEPT !.indent_level = @ - 1], cases,
                            from + 1)

translate_statement(ctx, node, step_number) ==
    IF node = Null THEN ctx
    ELSE
    LET step_prefix == StepPrefix(step_number)
        Blank(c) == append_line(c, "")
    IN
    CASE node.type = "NODE_DECLARATION" ->
           Blank(append_line(ctx, snprintf(1024,
               IF node.is_array
               THEN step_prefix \o "Declare an array named '" \o node.name
                        \o "' of type " \o node.data_type \o " with "
                        \o translate_expression(node.array_size)
                        \o " elements."
               ELSE IF node.initializer # Null
               THEN step_prefix \o "Declare a variable named '" \o node.name
                        \o "' of type " \o node.data_type
                        \o ", initialised to "
                        \o translate_expression(node.initializer) \o "."
               ELSE step_prefix \o "Declare a variable named '" \o node.name
                        \o "' of type " \o node.data_type \o ".")))
      [] node.type = "NODE_IF" ->
           LET headed == append_line(ctx, snprintf(1024,
                   step_prefix \o "If the condition \""
                       \o translate_expression(node.condition)
                       \o "\" is true, then:"))
               then_done == TranslateNested(headed, node.then_branch)
           IN  Blank(IF node.else_branch # Null
                     THEN TranslateNested(append_line(then_done, "  Otherwise:"),
                                          node.else_branch)
                     ELSE then_done)
      [] node.type = "NODE_WHILE" ->
           Blank(TranslateNested(
               append_line(ctx, snprintf(1024,
                   step_prefix \o "Whilst the condition \""
                       \o translate_expression(node.condition)
                       \o "\" remains true, repeatedly perform the following:")),
               node.body))
      [] node.type = "NODE_FOR" ->
           LET init_str == IF node.init # Null
                           THEN translate_expression(node.init) ELSE "nothing"
               cond_str == IF node.condition # Null
                           THEN translate_expression(node.condition)
                           ELSE "true"
               inc_str == IF node.increment # Null
                          THEN translate_expression(node.increment)
                          ELSE "nothing"
           IN  Blank(TranslateNested(
                   append_line(ctx, snprintf(2048,
                       step_prefix \o "Beginning with " \o init_str
                           \o ", and continuing whilst the condition \""
                           \o cond_str \o "\" holds, "
                           \o "repeatedly perform the following operations, "
                           \o "and after each iteration " \o inc_str \o ":")),
                   node.body))
      [] node.type = "NODE_RETURN" ->
           Blank(append_line(ctx, snprintf(1024,
               IF node.value # Null
               THEN step_prefix \o "Return "
                        \o translate_expression(node.value) \o "."
               ELSE step_prefix \o "Return (void).")))
      [] node.type = "NODE_BREAK" ->
           Blank(append_line(ctx, "Exit the loop immediately."))
      [] node.type = "NODE_CONTINUE" ->
           Blank(append_line(ctx, "Skip to the next iteration of the loop."))
      [] node.type = "NODE_DO_WHILE" ->
           LET headed == append_line(ctx, snprintf(1024,
                   step_prefix \o "Repeatedly perform the following:"))
               done == TranslateNested(headed, node.body)
           IN  Blank(append_line(done, snprintf(1024,
                   "Continue whilst the condition \""
                       \o translate_expression(node.condition)
                       \o "\" remains true.")))
      [] node.type = "NODE_SWITCH" ->
           LET headed == append_line(ctx, snprintf(1024,
                   step_prefix \o "Depending on the value of "
                       \o translate_expression(node.expression) \o ":"))
               inner == [headed EXCEPT !.indent_level = @ + 1]
               done == TranslateCases(inner, node.cases, 1)
           IN  Blank([done EXCEPT !.indent_level = @ - 1])
      [] node.type = "NODE_GOTO" ->
           Blank(append_line(ctx, snprintf(1024,
               step_prefix \o "Jump to label '" \o node.label \o "'.")))
      [] node.type = "NODE_LABEL" ->
           LET headed == append_line(ctx, snprintf(1024,
                   "Label '" \o node.name \o "':"))
           IN  IF node.statement # Null
               THEN translate_statement(headed, node.statement, 0)
               ELSE headed
      [] node.type = "NODE_BLOCK" ->
           TranslateFrom(ctx, node.statements, 1, step_number > 0)
      [] OTHER ->
           Blank(append_line(ctx, CapitalizeFirst(snprintf(1024,
               step_prefix \o translate_expression(node) \o "."))))

RECURSIVE Dashes(_)
Dashes(n) == IF n = 0 THEN "" ELSE "-" \o Dashes(n - 1)

ParameterLinesNone(ctx, parameters, from) == ctx

\* The loop of translate_function over the parameters from a position on.
RECURSIVE ParameterLines(_, _, _)
ParameterLines(ctx, parameters, from) ==
    IF from > Len(parameters) THEN ctx
    ELSE LET param == parameters[from] IN
         ParameterLines(
             append_line(ctx, snprintf(256,
                 "  * '" \o param.name \o "': " \o param.type
                     \o (IF param.is_array THEN " (array)" ELSE ""))),
             parameters, from + 1)

\* translate_function up to the loop over the statements of the body: the
\* heading, its underline, the description, the parameter list, the
\* sentence for main and the sentence that opens the steps.  The bullet of
\* a parameter line, U+2022 in the source, is written * here.
FunctionOpeningLines(ctx, node) ==
    LET header == snprintf(256, "Function: " \o node.name)
        count == Len(node.parameters)
        desc == snprintf(512,
            IF count = 0
            THEN "This function accepts no parameters and returns a value "
                     \o "of type " \o node.return_type \o "."
            ELSE IF count = 1
            THEN "This function accepts one parameter named '"
                     \o node.parameters[1].name \o "' of type "
                     \o node.parameters[1].type
                     \o (IF node.parameters[1].is_array THEN " (array)" ELSE "")
                     \o ", and returns a value of type " \o node.return_type
                     \o "."
            ELSE "This function accepts " \o Decimal(count)
                     \o " parameters and returns a value of type "
                     \o node.return_type \o ".")
        headed == append_line(append_line(
                      [append_line(ctx, header) EXCEPT
                          !.output = Append(@, Dashes(Len(header)))],
                      desc), "")
        listed == IF count > 1
                  THEN append_line(
                           ParameterLines(append_line(headed, "Parameters:"),
                                          node.parameters, 1), "")
                  ELSE headed
        entry == IF node.name = "main"
                 THEN append_line(append_line(listed,
                          "This is the main entry point of the programme."), "")
                 ELSE listed
    IN  append_line(append_line(entry,
            "The function performs the following steps:"), "")

\* Whether translate_function runs its loop over the body.
HasBlockBody(node) == node.body # Null /\ node.body.type = "NODE_BLOCK"

translate_function(ctx, node) ==
    IF node.type # "NODE_FUNCTION" THEN ctx
    ELSE LET opened == FunctionOpeningLines(ctx, node)
             done == IF HasBlockBody(node)
                     THEN [TranslateFrom([opened EXCEPT !.indent_level = 1],
                                         node.body.statements, 1, TRUE)
                              EXCEPT !.indent_level = 0]
                     ELSE opened
         IN  append_line(done, "")

\* translate_to_english up to the loop over the functions.
ProgrammeOpeningLines(root) ==
    LET ctx == translation_context_create
        func_count == Len(root.functions)
        titled == append_line(append_line(append_line(ctx,
                      "Programme Description"), "====================="), "")
    IN  append_line(append_line(titled,
            IF func_count = 1 THEN "This programme consists of one function."
            ELSE snprintf(256, "This programme consists of "
                                   \o Decimal(func_count) \o " functions.")),
            "")

RECURSIVE TranslateFunctions(_, _, _)
TranslateFunctions(ctx, functions, from) ==
    IF from > Len(functions) THEN ctx
    ELSE TranslateFunctions(translate_function(ctx, functions[from]),
                            functions, from + 1)

\* The lines of the text translate_to_english returns.
translate_to_english(root) ==
    IF root = Null \/ root.type # "NODE_PROGRAM"
    THEN <<"Error: Invalid programme structure.">>
    ELSE TranslateFunctions(ProgrammeOpeningLines(root),
                            root.functions, 1).output

(***************************************************************************)
(* The tokenizer as a state machine: one step per iteration of the loop of *)
(* skip_whitespace and one per token scanned and stored by tokenize.       *)
(***************************************************************************)
\* The variables of a component the behaviour does not exercise.
LexIdle == lexer = Null /\ list = <<>> /\ lpc = "idle"

ParseIdle == parser = Null /\ program = <<>> /\ ppc = "idle" /\ tree = Null

CheckIdle ==
    /\ analyzer = Null
    /\ cnode = Null
    /\ cpc = "idle"
    /\ nfuncs = 0
    /\ nstmts = 0
    /\ reported = {}

PipeIdle == pipe = Null

TrialIdle == trial = Null

LexAlphabet == {"a", "1", ".", " ", "\n", "#", "/", "*", "\"", "\\", "=", "@"}

RECURSIVE StringsUpTo(_)
StringsUpTo(n) ==
    IF n = 0 THEN {""}
    ELSE LET shorter == StringsUpTo(n - 1) IN
         shorter \cup {s \o c : s \in shorter, c \in LexAlphabet}

LexInit ==
    /\ mode = "lex"
    /\ \E source \in StringsUpTo(MaxSrcLen) : lexer = lexer_create(source)
    /\ list = <<>>
    /\ lpc = "skip"
    /\ ParseIdle
    /\ CheckIdle
    /\ PipeIdle
    /\ TrialIdle

\* The loop test of skip_whitespace and, when it passes, one iteration.  An
\* iteration that neither moves the scan position nor leaves the loop would
\* repeat for ever: the step then ends in "stuck".
LexSkip ==
    /\ mode = "lex"
    /\ lpc = "skip"
    /\ IF lexer_is_at_end(lexer)
       THEN lexer' = lexer /\ lpc' = "scan"
       ELSE LET it == SkipWhitespaceIteration(lexer) IN
            /\ lexer' = it.lexer
            /\ lpc' = IF it.brk THEN "scan"
                      ELSE IF it.lexer.current > lexer.current THEN "skip"
                      ELSE "stuck"
    /\ UNCHANGED <<list, mode, parseVars, checkVars, pipe, trial>>

\* The rest of lexer_next_token and the body of the loop of tokenize.
LexScan ==
    /\ mode = "lex"
    /\ lpc = "scan"
    /\ LET r == ScanToken(lexer) IN
       /\ lexer' = r.lexer
       /\ list' = Append(list, r.token)
       /\ lpc' = IF IsTerminal(r.token) THEN "done" ELSE "skip"
    /\ UNCHANGED <<mode, parseVars, checkVars, pipe, trial>>

LexNext == LexSkip \/ LexScan

SpecLex == LexInit /\ [][LexNext]_vars

(***************************************************************************)
(* The parser as a state machine: one step per iteration of the loop of    *)
(* parse, and one for its return.  The token lists are a fixed opening     *)
(* (nothing, a function header up to its '{', or that header followed by   *)
(* the head of a switch, of an if or of a return) and then every sequence  *)
(* of at most MaxBody tokens of ParseAlphabet, closed by the end-of-stream *)
(* token.                                                                  *)
(***************************************************************************)
ParseAlphabet ==
    {"TOKEN_IDENTIFIER", "TOKEN_NUMBER", "TOKEN_SEMICOLON", "TOKEN_LPAREN",
     "TOKEN_RPAREN", "TOKEN_LBRACKET", "TOKEN_RBRACKET", "TOKEN_LBRACE",
     "TOKEN_RBRACE", "TOKEN_INT", "TOKEN_ASSIGN", "TOKEN_RETURN", "TOKEN_DOT",
     "TOKEN_COLON", "TOKEN_PLUS"}

FunctionOpening ==
    <<"TOKEN_INT", "TOKEN_IDENTIFIER", "TOKEN_LPAREN", "TOKEN_RPAREN",
      "TOKEN_LBRACE">>

SwitchOpening ==
    FunctionOpening \o <<"TOKEN_SWITCH", "TOKEN_LPAREN", "TOKEN_IDENTIFIER",
                         "TOKEN_RPAREN", "TOKEN_LBRACE">>

CaseOpening == SwitchOpening \o <<"TOKEN_CASE", "TOKEN_NUMBER", "TOKEN_COLON">>

IfOpening ==
    FunctionOpening \o <<"TOKEN_IF", "TOKEN_LPAREN", "TOKEN_IDENTIFIER",
                         "TOKEN_RPAREN">>

ReturnOpening == FunctionOpening \o <<"TOKEN_RETURN">>

Openings ==
    {<<>>, FunctionOpening, SwitchOpening, CaseOpening, IfOpening,
     ReturnOpening}

\* The text the tokenizer gives a token of each type used here.
LexemeOf(type) ==
    CASE type = "TOKEN_IDENTIFIER" -> "x"
      [] type = "TOKEN_NUMBER"     -> "1"
      [] type = "TOKEN_SEMICOLON"  -> ";"
      [] type = "TOKEN_LPAREN"     -> "("
      [] type = "TOKEN_RPAREN"     -> ")"
      [] type = "TOKEN_LBRACKET"   -> "["
      [] type = "TOKEN_RBRACKET"   -> "]"
      [] type = "TOKEN_LBRACE"     -> "{"
      [] type = "TOKEN_RBRACE"     -> "}"
      [] type = "TOKEN_INT"        -> "int"
      [] type = "TOKEN_ASSIGN"     -> "="
      [] type = "TOKEN_RETURN"     -> "return"
      [] type = "TOKEN_DOT"        -> "."
      [] type = "TOKEN_COLON"      -> ":"
      [] type = "TOKEN_PLUS"       -> "+"
      [] type = "TOKEN_IF"         -> "if"
      [] type = "TOKEN_SWITCH"     -> "switch"
      [] type = "TOKEN_CASE"       -> "case"
      [] type = "TOKEN_EOF"        -> ""

\* The token list of the given types, written on one line one column apart.
TokensOf(types) ==
    [i \in 1..Len(types) |-> token_create(types[i], LexemeOf(types[i]), 1, i)]

BodiesUpTo(n) == UNION {[1..k -> ParseAlphabet] : k \in 0..n}

ParseInit ==
    /\ mode = "parse"
    /\ \E opening \in Openings, body \in BodiesUpTo(MaxBody) :
          parser = parser_create(TokensOf(opening \o body \o <<"TOKEN_EOF">>))
    /\ program = <<>>
    /\ ppc = "loop"
    /\ tree = Null
    /\ LexIdle
    /\ CheckIdle
    /\ PipeIdle
    /\ TrialIdle

\* One iteration of while (!is_at_end(parser)) in parse.  An iteration that
\* faults or never ends adds nothing to the Program.
ParseStep ==
    /\ mode = "parse"
    /\ ppc = "loop"
    /\ ~is_at_end(parser)
    /\ \E it \in {ParseIteration(parser, program)} :
       /\ parser' = IF Diverges(parser, it.p) THEN [it.p EXCEPT !.hang = TRUE]
                    ELSE it.p
       /\ program' = IF Halted(it.p) \/ Diverges(parser, it.p) THEN program
                     ELSE it.node
       /\ ppc' = IF it.p.null_deref THEN "crashed"
                 ELSE IF it.p.hang \/ Diverges(parser, it.p) THEN "hung"
                 ELSE "loop"
    /\ UNCHANGED <<mode, tree, lexVars, checkVars, pipe, trial>>

\* The end of parse: the tree is destroyed when an error was recorded.
ParseFinish ==
    /\ mode = "parse"
    /\ ppc = "loop"
    /\ is_at_end(parser)
    /\ tree' = ParseResult(parser, program)
    /\ ppc' = "done"
    /\ UNCHANGED <<mode, parser, program, lexVars, checkVars, pipe, trial>>

ParseNext == ParseStep \/ ParseFinish

SpecParse == ParseInit /\ [][ParseNext]_vars

(***************************************************************************)
(* The check as a state machine.  The program is given to it piece by      *)
(* piece: a function (its return type, name and parameters), then the      *)
(* statements of its body one at a time, then the end of the body.  The    *)
(* stderr and visited fields of the analyzer hold what the latest step     *)
(* wrote and visited.  The functions are named f or g and may take a       *)
(* parameter x, scalar or array, or two of them; the statements declare, assign, index and *)
(* return the names x, y, f and g and call g, x and printf, two loops      *)
(* declare i, x and y in their header and body, and no                     *)
(* function declares or receives the name g.                               *)
(***************************************************************************)
Identifier(name) == ast_create_identifier(name)

Number(value) == ast_create_literal(value, "number")

BlockOf(statements) ==
    ast_create_node("NODE_BLOCK") @@ [statements |-> statements]

DeclareX == ast_create_declaration("int", "x", Null)

FunctionPool ==
    {ast_create_function("int", name, params, ast_create_block) :
        name \in {"f", "g"},
        params \in {<<>>, <<parameter_create("int", "x", FALSE)>>,
                    <<parameter_create("int", "x", TRUE)>>,
                    <<parameter_create("int", "x", FALSE),
                      parameter_create("char", "x", FALSE)>>}}

StatementPool ==
    {DeclareX,
     ast_create_declaration("int", "f", Null),
     ast_create_assignment(Identifier("x"), Number("1")),
     ast_create_compound_assign("+=", Identifier("x"), Identifier("y")),
     ast_create_return(Identifier("y")),
     ast_create_return(Identifier("g")),
     ast_create_function_call("g", <<>>),
     ast_create_if(Identifier("x"), BlockOf(<<DeclareX>>), Null),
     ast_create_do_while(BlockOf(<<DeclareX>>), Number("0")),
     ast_create_function_call("x", <<Identifier("y")>>),
     ast_create_function_call("printf", <<Identifier("y")>>),
     ast_create_compound_assign("+=", Identifier("x"),
                                ast_create_function_call("g", <<>>)),
     ast_create_array_declaration("int", "y", Number("1")),
     ast_create_array_access("x", Identifier("y")),
     ast_create_array_access("y", Number("0")),
     ast_create_compound_assign("+=", Identifier("x"),
                                ast_create_array_access("y", Number("0"))),
     ast_create_for(ast_create_declaration("int", "i", Number("0")),
                    Identifier("i"), Null, BlockOf(<<DeclareX>>)),
     ast_create_while(Identifier("x"),
                      BlockOf(<<ast_create_declaration("int", "y", Null)>>))}

Names == {"x", "y", "f", "g", "i"}

\* The analyzer at the start of a step: nothing written or visited yet.
StepStart(a) == [a EXCEPT !.stderr = <<>>, !.visited = {}]

\* Whether the step wrote the message.
Wrote(a, message) == \E i \in 1..Len(a.stderr) : a.stderr[i].message = message

\* The names the step reported as an undeclared variable or an undefined
\* function.
ReportedMissing(a) ==
    {name \in Names :
        \/ Wrote(a, "Undeclared variable '" \o name \o "'")
        \/ Wrote(a, "Undefined function '" \o name \o "'")}

CheckInit ==
    /\ mode = "check"
    /\ analyzer = semantic_analyzer_create
    /\ cnode = Null
    /\ cpc = "function"
    /\ nfuncs = 0
    /\ nstmts = 0
    /\ reported = {}
    /\ LexIdle
    /\ ParseIdle
    /\ PipeIdle
    /\ TrialIdle

\* analyze_function up to the analysis of the body; it returns at once when
\* the function is declared already.
CheckFunction ==
    /\ mode = "check"
    /\ cpc = "function"
    /\ nfuncs < MaxFuncs
    /\ \E function \in FunctionPool :
          /\ analyzer' = EnterFunction(StepStart(analyzer), function)
          /\ cnode' = function
          /\ cpc' = IF AlreadyDeclared(analyzer, function) THEN "function"
                    ELSE "body"
    /\ nfuncs' = nfuncs + 1
    /\ nstmts' = 0
    /\ UNCHANGED <<mode, reported, lexVars, parseVars, pipe, trial>>

\* One iteration of the loop of analyze_statement over the body block.
CheckStatement ==
    /\ mode = "check"
    /\ cpc = "body"
    /\ nstmts < MaxStmts
    /\ \E statement \in StatementPool :
          /\ analyzer' = analyze_statement(StepStart(analyzer), statement)
          /\ cnode' = statement
          /\ reported' = reported \cup ReportedMissing(analyzer')
    /\ nstmts' = nstmts + 1
    /\ UNCHANGED <<mode, cpc, nfuncs, lexVars, parseVars, pipe, trial>>

\* The end of the body: analyze_function leaves the scope of the function.
CheckEndFunction ==
    /\ mode = "check"
    /\ cpc = "body"
    /\ analyzer' = exit_scope(StepStart(analyzer))
    /\ cnode' = Null
    /\ cpc' = "function"
    /\ UNCHANGED <<mode, nfuncs, nstmts, reported, lexVars, parseVars, pipe, trial>>

\* The end of the program: analyze_semantics returns !had_error.
CheckFinish ==
    /\ mode = "check"
    /\ cpc = "function"
    /\ analyzer' = StepStart(analyzer)
    /\ cnode' = Null
    /\ cpc' = "done"
    /\ UNCHANGED <<mode, nfuncs, nstmts, reported, lexVars, parseVars, pipe, trial>>

CheckNext ==
    CheckFunction \/ CheckStatement \/ CheckEndFunction \/ CheckFinish

SpecCheck == CheckInit /\ [][CheckNext]_vars

(***************************************************************************)
(* The driver (compile, src/src/main.c) as a state machine: one step per   *)
(* stage.  pipe.ran lists the stages called so far and pipe.ok whether     *)
(* each gave compile what it needs to go on; exit_code is -1 until compile *)
(* returns.  Reading and writing a file succeed or fail as the file system *)
(* decides.  A parse that faults or never returns ends the run without a   *)
(* return from compile.                                                    *)
(***************************************************************************)
Sources ==
    {"",
     "int main(){return 0;}",
     "int main(){int x;int x;return 0;}",
     "int main(){return y;}",
     "char *s = \"abc;",
     "int main(){int x;x=1;return x;}",
     "int main(){int x;x+=y;return 0;}",
     "int main(){do{y=1;}while(0);return 0;}",
     "int main(){return g();}int g(){return 0;}",
     "int g(){return 0;}int main(){return g();}",
     "int g(){}int g(){return y;}",
     "int main(){)}",
     "int main(){[0];}",
     "int main(){int x return 0;}",
     "int main(){return 0;}@",
     "int add(int a,int b){return a+b;}",
     "void g(){}",
     "int main(){puts(\"a\");return 0;}",
     "int main(){printf(\"a\");return 0;}",
     "// nothing\n",
     "return"}

Stages == <<"read", "tokenize", "parse", "check", "render", "write">>

\* The record of a stage that was called and how it went.
Ran(p, stage, ok) ==
    [p EXCEPT !.ran = Append(@, stage), !.ok = Append(@, ok)]

\* return 1 and return 0 of compile.
Exit(p, code) == [p EXCEPT !.stage = "exited", !.exit_code = code]

\* The test of compile for a token list that ends in a lexical error.
LexicalAnalysisFailed(tokens) ==
    Len(tokens) > 0 /\ tokens[Len(tokens)].type = "TOKEN_ERROR"

\* The test on analyze_semantics that lets every program through.
SemanticAnalysisFailedNever(ast) == FALSE

\* The test of compile on the result of analyze_semantics.
SemanticAnalysisFailed(ast) == ~analyze_semantics(ast)

PipeInit ==
    /\ mode = "compile"
    /\ \E source \in Sources :
          pipe = [source |-> source, stage |-> "read", tokens |-> <<>>,
                  ast |-> Null, ran |-> <<>>, ok |-> <<>>, written |-> FALSE,
                  exit_code |-> -1]
    /\ LexIdle
    /\ ParseIdle
    /\ CheckIdle
    /\ TrialIdle

\* source = read_file(input_file); if (!source) return 1;
ReadFile ==
    /\ mode = "compile"
    /\ pipe.stage = "read"
    /\ \E opened \in BOOLEAN :
          pipe' = IF opened
                  THEN [Ran(pipe, "read", TRUE) EXCEPT !.stage = "tokenize"]
                  ELSE Exit(Ran(pipe, "read", FALSE), 1)
    /\ UNCHANGED <<mode, lexVars, parseVars, checkVars, trial>>

\* tokens = tokenize(source); if the last token is TOKEN_ERROR return 1;
Tokenize ==
    /\ mode = "compile"
    /\ pipe.stage = "tokenize"
    /\ \E tokens \in {tokenize(pipe.source)} :
          pipe' = IF LexicalAnalysisFailed(tokens)
                  THEN Exit(Ran([pipe EXCEPT !.tokens = tokens],
                                "tokenize", FALSE), 1)
                  ELSE [Ran(pipe, "tokenize", TRUE) EXCEPT !.tokens = tokens,
                                                           !.stage = "parse"]
    /\ UNCHANGED <<mode, lexVars, parseVars, checkVars, trial>>

\* ast = parse(tokens); if (!ast) return 1;
Parse ==
    /\ mode = "compile"
    /\ pipe.stage = "parse"
    /\ \E r \in {parse(pipe.tokens)} :
          pipe' = IF r.outcome # "returned"
                  THEN [Ran(pipe, "parse", FALSE) EXCEPT !.stage = r.outcome]
                  ELSE IF r.ast = Null
                  THEN Exit(Ran(pipe, "parse", FALSE), 1)
                  ELSE [Ran(pipe, "parse", TRUE) EXCEPT !.ast = r.ast,
                                                        !.stage = "check"]
    /\ UNCHANGED <<mode, lexVars, parseVars, checkVars, trial>>

\* if (!analyze_semantics(ast)) return 1;
Check ==
    /\ mode = "compile"
    /\ pipe.stage = "check"
    /\ pipe' = IF SemanticAnalysisFailed(pipe.ast)
               THEN Exit(Ran(pipe, "check", FALSE), 1)
               ELSE [Ran(pipe, "check", TRUE) EXCEPT !.stage = "render"]
    /\ UNCHANGED <<mode, lexVars, parseVars, checkVars, trial>>

\* english = translate_to_english(ast); formatted = format_english_output(english);
Render ==
    /\ mode = "compile"
    /\ pipe.stage = "render"
    /\ pipe' = [Ran(pipe, "render", TRUE) EXCEPT !.stage = "write"]
    /\ UNCHANGED <<mode, lexVars, parseVars, checkVars, trial>>

\* if (!write_file(output_file, formatted)) return 1; ... return 0;
WriteFile ==
    /\ mode = "compile"
    /\ pipe.stage = "write"
    /\ \E opened \in BOOLEAN :
          pipe' = IF opened
                  THEN Exit([Ran(pipe, "write", TRUE) EXCEPT !.written = TRUE],
                            0)
                  ELSE Exit(Ran(pipe, "write", FALSE), 1)
    /\ UNCHANGED <<mode, lexVars, parseVars, checkVars, trial>>

PipeNext == ReadFile \/ Tokenize \/ Parse \/ Check \/ Render \/ WriteFile

SpecCompile == PipeInit /\ [][PipeNext]_vars

(***************************************************************************)
(* tokenize applied to a source and to the source with a filler inserted   *)
(* in it.  The source is given as the text left and the text right of the  *)
(* place of insertion: a run of at most MaxPieces pieces, and one piece.    *)
(***************************************************************************)
PiecePool ==
    {"a", "1", "/", "*", "=", "<", "\"s\"", "x / ", " / y", "1.5", "int",
     " ", "/=", "<<", "a //c", "\nb", "a #d"}

RECURSIVE PiecesUpTo(_)
PiecesUpTo(n) ==
    IF n = 0 THEN {""}
    ELSE LET shorter == PiecesUpTo(n - 1) IN
         shorter \cup {s \o piece : s \in shorter, piece \in PiecePool}

WhitespaceFillers == {" ", "\t", "\n", " \t\n "}

\* Comments: block comments, and line comments with the newline ending them.
CommentFillers ==
    {"/**/", "/* c */", "// c\n", " /* c */", "\n// c\n", "/*\n*/"}

\* A line comment without the newline ending it.
OpenCommentFillers == {"// c"}

Fillers == WhitespaceFillers \cup CommentFillers \cup OpenCommentFillers

\* The token kinds of a token list, in order.
Kinds(tokens) == [i \in 1..Len(tokens) |-> tokens[i].type]

\* The lexemes of a token list without its last, terminal token.
Lexemes(tokens) == [i \in 1..(Len(tokens) - 1) |-> tokens[i].lexeme]

ErrorFree(tokens) == tokens[Len(tokens)].type # "TOKEN_ERROR"

\* Whether the place between the texts is one between two adjacent tokens
\* of a source that tokenizes without error.
BetweenTokens(left, right) ==
    LET l == tokenize(left)
        r == tokenize(right)
        whole == tokenize(left \o right)
    IN  /\ ErrorFree(l) /\ ErrorFree(r) /\ ErrorFree(whole)
        /\ Len(l) > 1 /\ Len(r) > 1
        /\ Lexemes(whole) = Lexemes(l) \o Lexemes(r)

InsertInit ==
    /\ mode = "insert"
    /\ \E left \in PiecesUpTo(MaxPieces), right \in PiecePool,
          filler \in Fillers :
          /\ BetweenTokens(left, right)
          /\ trial = [left |-> left, right |-> right, filler |-> filler,
                      applied |-> FALSE, plain |-> <<>>, filled |-> <<>>]
    /\ LexIdle
    /\ ParseIdle
    /\ CheckIdle
    /\ PipeIdle

\* tokenize on the source and on the source with the filler inserted.
InsertFiller ==
    /\ mode = "insert"
    /\ ~trial.applied
    /\ trial' = [trial EXCEPT
                    !.applied = TRUE,
                    !.plain = tokenize(trial.left \o trial.right),
                    !.filled = tokenize(trial.left \o trial.filler
                                            \o trial.right)]
    /\ UNCHANGED <<mode, lexVars, parseVars, checkVars, pipe>>

SpecInsert == InsertInit /\ [][InsertFiller]_vars

(***************************************************************************)
(* tokenize applied to a source and then to the lexemes of its tokens put  *)
(* together again, directly and with a space between them.                 *)
(***************************************************************************)
RoundTripPool == PiecePool \cup {"'c'", "\"a b\"", "<<=", "int x", "\""}

RoundTripSources ==
    {left \o right : left \in PiecesUpTo(MaxPieces), right \in RoundTripPool}

\* The strings one after another, with the separator after each.
RECURSIVE JoinWith(_, _)
JoinWith(strings, separator) ==
    IF strings = <<>> THEN ""
    ELSE Head(strings) \o separator \o JoinWith(Tail(strings), separator)

RoundTripInit ==
    /\ mode = "roundtrip"
    /\ \E source \in RoundTripSources :
          trial = [source |-> source, applied |-> FALSE, plain |-> <<>>,
                   joined |-> <<>>, spaced |-> <<>>]
    /\ LexIdle
    /\ ParseIdle
    /\ CheckIdle
    /\ PipeIdle

\* tokenize on the source, and on the lexemes of the result put together.
Retokenize ==
    /\ mode = "roundtrip"
    /\ ~trial.applied
    /\ LET plain == tokenize(trial.source) IN
       trial' = [trial EXCEPT
                    !.applied = TRUE,
                    !.plain = plain,
                    !.joined = tokenize(JoinWith(Lexemes(plain), "")),
                    !.spaced = tokenize(JoinWith(Lexemes(plain), " "))]
    /\ UNCHANGED <<mode, lexVars, parseVars, checkVars, pipe>>

SpecRoundTrip == RoundTripInit /\ [][Retokenize]_vars

(***************************************************************************)
(* tokenize applied to texts that start with an operator character, or a   *)
(* character that starts no token, and to texts that start with a quote.   *)
(***************************************************************************)
RECURSIVE TextsUpTo(_, _)
TextsUpTo(alphabet, n) ==
    IF n = 0 THEN {""}
    ELSE LET shorter == TextsUpTo(alphabet, n - 1) IN
         shorter \cup {s \o c : s \in shorter, c \in alphabet}

OperatorStarts ==
    {"+", "-", "*", "/", "%", "=", "!", "<", ">", "&", "|", "^", "~", "?",
     ":", ".", "(", ")", "{", "}", "[", "]", ";", ","}

StartsNoToken == {"@", "$", "\\"}

OperatorTexts ==
    {first \o rest :
        first \in OperatorStarts \cup StartsNoToken,
        rest \in TextsUpTo({"+", "-", "=", "<", ">", "&", "|", "/", "*",
                            "a", " "}, MaxRest)}

Quotes == {"\"", "'"}

LiteralTexts ==
    {opening \o rest :
        opening \in Quotes,
        rest \in TextsUpTo({"\"", "'", "\\", "a", "\n"}, MaxLiteral)}

ScanInit ==
    /\ mode = "scan"
    /\ \E text \in OperatorTexts \cup LiteralTexts :
          trial = [text |-> text, applied |-> FALSE, tokens |-> <<>>]
    /\ LexIdle
    /\ ParseIdle
    /\ CheckIdle
    /\ PipeIdle

\* tokenize on the text.
ScanText ==
    /\ mode = "scan"
    /\ ~trial.applied
    /\ trial' = [trial EXCEPT !.applied = TRUE,
                              !.tokens = tokenize(trial.text)]
    /\ UNCHANGED <<mode, lexVars, parseVars, checkVars, pipe>>

SpecScan == ScanInit /\ [][ScanText]_vars

(***************************************************************************)
(* parse_expression applied to the tokens of an expression.  The           *)
(* expressions are the trees of at most MaxOperators operators over one    *)
(* identifier, each written out with parentheses only around an operand    *)
(* whose operator is of a lower level than its place admits.               *)
(***************************************************************************)
BinaryOperators == {"||", "&&", "|", "^", "&", "==", "<", "<<", "+", "-", "*"}

PrefixOperators == {"-", "!"}

\* The trees with n operators.
RECURSIVE TreesWith(_)
TreesWith(n) ==
    IF n = 0 THEN {ast_create_identifier("a")}
    ELSE LET Pairs == {<<l, r>> \in (0..(n - 1)) \X (0..(n - 1)) :
                          l + r = n - 1}
             Triples == {<<c, t, e>> \in
                            (0..(n - 1)) \X (0..(n - 1)) \X (0..(n - 1)) :
                            c + t + e = n - 1}
         IN  {ast_create_unary_op(op, operand) :
                 op \in PrefixOperators, operand \in TreesWith(n - 1)}
             \cup UNION {
                 {ast_create_binary_op(op, left, right) :
                     op \in BinaryOperators,
                     left \in TreesWith(k[1]), right \in TreesWith(k[2])}
                 \cup {ast_create_assignment(left, right) :
                     left \in TreesWith(k[1]), right \in TreesWith(k[2])}
                 \cup {ast_create_compound_assign("+=", left, right) :
                     left \in TreesWith(k[1]), right \in TreesWith(k[2])}
                 : k \in Pairs}
             \cup UNION {
                 {ast_create_ternary(c, t, e) :
                     c \in TreesWith(k[1]), t \in TreesWith(k[2]),
                     e \in TreesWith(k[3])}
                 : k \in Triples}

\* The levels of the ladder, from the loosest: assignment and compound
\* assignment, ternary, the ten binary levels, prefix operators, and the
\* rest.
LevelOf(node) ==
    CASE node.type \in {"NODE_ASSIGNMENT", "NODE_COMPOUND_ASSIGN"} -> 0
      [] node.type = "NODE_TERNARY" -> 1
      [] node.type = "NODE_BINARY_OP" ->
           (CASE node.operator = "||" -> 2
             [] node.operator = "&&" -> 3
             [] node.operator = "|" -> 4
             [] node.operator = "^" -> 5
             [] node.operator = "&" -> 6
             [] node.operator = "==" -> 7
             [] node.operator = "<" -> 8
             [] node.operator = "<<" -> 9
             [] node.operator \in {"+", "-"} -> 10
             [] node.operator = "*" -> 11)
      [] node.type = "NODE_UNARY_OP" -> 12
      [] OTHER -> 14

\* The text of the expression at a place that admits the levels from
\* lowest on: operators of a level group to the left for the binary levels
\* and to the right for assignment and ternary.
RECURSIVE Written(_, _)
Written(node, lowest) ==
    LET level == LevelOf(node)
        text ==
            CASE node.type = "NODE_ASSIGNMENT" ->
                   Written(node.target, 1) \o " = " \o Written(node.value, 0)
              [] node.type = "NODE_COMPOUND_ASSIGN" ->
                   Written(node.target, 1) \o " " \o node.operator \o " "
                       \o Written(node.value, 0)
              [] node.type = "NODE_TERNARY" ->
                   Written(node.condition, 2) \o " ? "
                       \o Written(node.then_expr, 0) \o " : "
                       \o Written(node.else_expr, 1)
              [] node.type = "NODE_BINARY_OP" ->
                   Written(node.left, level) \o " " \o node.operator \o " "
                       \o Written(node.right, level + 1)
              [] node.type = "NODE_UNARY_OP" ->
                   node.operator \o " " \o Written(node.operand, 12)
              [] OTHER -> node.name
    IN  IF level < lowest THEN "( " \o text \o " )" ELSE text

ExpressionInit ==
    /\ mode = "expression"
    /\ \E n \in 0..MaxOperators : \E node \in TreesWith(n) :
          trial = [tree |-> node, text |-> Written(node, 0),
                   applied |-> FALSE, node |-> Null, had_error |-> FALSE,
                   at_end |-> FALSE]
    /\ LexIdle
    /\ ParseIdle
    /\ CheckIdle
    /\ PipeIdle

\* parse_expression on the tokens of the text.
ParseExpression ==
    /\ mode = "expression"
    /\ ~trial.applied
    /\ LET r == Call("parse_expression", parser_create(tokenize(trial.text)))
       IN  trial' = [trial EXCEPT !.applied = TRUE,
                                  !.node = r.node,
                                  !.had_error = r.p.had_error,
                                  !.at_end = peek(r.p).type = "TOKEN_EOF"]
    /\ UNCHANGED <<mode, lexVars, parseVars, checkVars, pipe>>

SpecExpression == ExpressionInit /\ [][ParseExpression]_vars

(***************************************************************************)
(* The translator as a state machine: translate_to_english on one          *)
(* programme, a step for its opening lines, for the opening lines of each  *)
(* function, for each top-level statement of a body, and for the end of    *)
(* each function, and one for a translation that overruns a buffer.  The   *)
(* programmes are one function with a body of at most                      *)
(* MaxSteps statements of a pool, and programmes that vary the heading.    *)
(***************************************************************************)
Call0(name) == ast_create_function_call(name, <<>>)

Text(value) == ast_create_literal(value, "string")

Statements(statements) ==
    [type |-> "NODE_BLOCK", line |-> 0, column |-> 0,
     statements |-> statements]

XPlusPlus == ast_create_unary_op("++post", Identifier("x"))

Twice(text) == text \o text

\* A string literal of 514 characters.
LongText ==
    Text("\"" \o Twice(Twice(Twice(Twice(Twice(Twice(Twice(Twice(Twice(
             "a"))))))))) \o "\"")

RenderPool ==
    {ast_create_function_call("printf", <<Text("\"Hello\"")>>),
     ast_create_function_call("g", <<LongText, LongText>>),
     ast_create_assignment(Identifier("x"),
         ast_create_binary_op("+", Identifier("a"), Number("5"))),
     XPlusPlus,
     ast_create_compound_assign("+=", Identifier("x"), Number("1")),
     ast_create_function_call("g", <<Identifier("x"), Number("2")>>),
     Text("\"1. x\""),
     ast_create_declaration("int", "x", Number("42")),
     ast_create_declaration("int", "x", Null),
     ast_create_array_declaration("int", "y", Number("10")),
     ast_create_if(Identifier("x"), Statements(<<Call0("g"), XPlusPlus>>), Null),
     ast_create_if(Identifier("x"), ast_create_break,
                   Statements(<<Statements(<<Call0("g")>>)>>)),
     ast_create_while(Identifier("x"),
                      Statements(<<ast_create_continue, XPlusPlus>>)),
     ast_create_for(Null, Null, Null, Statements(<<ast_create_break>>)),
     ast_create_for(ast_create_declaration("int", "i", Number("0")),
                    ast_create_binary_op("<", Identifier("i"), Number("10")),
                    ast_create_unary_op("++post", Identifier("i")),
                    Statements(<<Call0("g")>>)),
     ast_create_for(ast_create_assignment(Identifier("i"), Number("0")),
                    Null, ast_create_unary_op("++", Identifier("i")),
                    XPlusPlus),
     ast_create_do_while(Statements(<<XPlusPlus>>), Identifier("x")),
     [type |-> "NODE_SWITCH", line |-> 0, column |-> 0,
      expression |-> Identifier("x"),
      cases |-> <<[type |-> "NODE_CASE", line |-> 0, column |-> 0,
                   value |-> Number("1"),
                   statements |-> <<Call0("g"), ast_create_break>>],
                  [type |-> "NODE_DEFAULT", line |-> 0, column |-> 0,
                   value |-> Null, statements |-> <<XPlusPlus>>]>>],
     ast_create_return(Number("0")),
     ast_create_return(Null),
     ast_create_break,
     ast_create_continue,
     ast_create_goto("end"),
     ast_create_label("end", XPlusPlus),
     Statements(<<Call0("g"), XPlusPlus>>)}

RenderBodies == UNION {[1..k -> RenderPool] : k \in 0..MaxSteps}

RenderProgrammes ==
    {ast_create_program(<<ast_create_function("int", "f", <<>>,
                                              Statements(body))>>) :
        body \in RenderBodies}
    \cup {ast_create_program(
              <<ast_create_function("void", name, params, Statements(body))>>) :
             name \in {"main", "g", "mains"},
             params \in {<<>>, <<parameter_create("int", "x", TRUE)>>,
                         <<parameter_create("int", "x", FALSE),
                           parameter_create("char", "c", FALSE)>>,
                         <<parameter_create("char", "c", FALSE),
                           parameter_create("int", "y", TRUE),
                           parameter_create("int", "x", FALSE)>>},
             body \in {<<>>, <<ast_create_return(Null)>>}}
    \cup {ast_create_program(<<>>),
          ast_create_program(
              <<ast_create_function("int", "main", <<>>, Statements(<<>>)),
                ast_create_function("int", "a", <<>>,
                    Statements(<<ast_create_return(Number("0"))>>)),
                ast_create_function("int", "g", <<>>, Statements(<<>>))>>),
          ast_create_program(
              <<ast_create_function("int", "g", <<>>, Statements(<<>>)),
                ast_create_function("int", "main", <<>>,
                    Statements(<<Call0("g"), ast_create_return(Number("0"))>>))>>),
          Null}

RenderInit ==
    /\ mode = "render"
    /\ \E root \in RenderProgrammes :
          trial = [program |-> root, ctx |-> translation_context_create,
                   function |-> 0, step |-> 0, pc |-> "programme"]
    /\ LexIdle
    /\ ParseIdle
    /\ CheckIdle
    /\ PipeIdle

\* The function being translated, and the statements of its body.
CurrentFunction == trial.program.functions[trial.function]

CurrentBody ==
    IF HasBlockBody(CurrentFunction) THEN CurrentFunction.body.statements
    ELSE <<>>

\* translate_to_english up to its loop over the functions, or its return
\* for a tree that is no programme.
BeginProgramme ==
    /\ mode = "render"
    /\ trial.pc = "programme"
    /\ trial' =
          IF trial.program = Null \/ trial.program.type # "NODE_PROGRAM"
          THEN [trial EXCEPT
                   !.ctx.output = <<"Error: Invalid programme structure.">>,
                   !.pc = "returned"]
          ELSE [trial EXCEPT
                   !.ctx = ProgrammeOpeningLines(trial.program),
                   !.function = 1,
                   !.pc = IF Len(trial.program.functions) = 0 THEN "returned"
                          ELSE "function"]
    /\ UNCHANGED <<mode, lexVars, parseVars, checkVars, pipe>>

\* translate_function up to its loop over the statements.
BeginFunction ==
    /\ mode = "render"
    /\ trial.pc = "function"
    /\ trial' = [trial EXCEPT
                    !.ctx = [FunctionOpeningLines(trial.ctx, CurrentFunction)
                                EXCEPT !.indent_level =
                                    IF HasBlockBody(CurrentFunction) THEN 1
                                    ELSE @],
                    !.step = 1,
                    !.pc = "steps"]
    /\ UNCHANGED <<mode, lexVars, parseVars, checkVars, pipe>>

\* One iteration of the loop of translate_function:
\* translate_statement(ctx, statements[i], i + 1).
TranslateStep ==
    /\ mode = "render"
    /\ trial.pc = "steps"
    /\ trial.step <= Len(CurrentBody)
    /\ trial' = [trial EXCEPT
                    !.ctx = translate_statement(trial.ctx,
                                CurrentBody[trial.step], trial.step),
                    !.step = @ + 1]
    /\ UNCHANGED <<mode, lexVars, parseVars, checkVars, pipe>>

\* The same iteration when the translation of the statement writes beyond
\* the end of args_str, which is undefined: the run may go on with the
\* text as written (TranslateStep) or end here.
TranslateOverrun ==
    /\ mode = "render"
    /\ trial.pc = "steps"
    /\ trial.step <= Len(CurrentBody)
    /\ Overruns(CurrentBody[trial.step])
    /\ trial' = [trial EXCEPT !.pc = "crashed"]
    /\ UNCHANGED <<mode, lexVars, parseVars, checkVars, pipe>>

\* The end of translate_function, and of the loop of translate_to_english
\* after the last function.
EndFunction ==
    /\ mode = "render"
    /\ trial.pc = "steps"
    /\ trial.step > Len(CurrentBody)
    /\ trial' = [trial EXCEPT
                    !.ctx = append_line([trial.ctx EXCEPT
                                !.indent_level =
                                    IF HasBlockBody(CurrentFunction) THEN 0
                                    ELSE @], ""),
                    !.function = @ + 1,
                    !.step = 0,
                    !.pc = IF trial.function = Len(trial.program.functions)
                           THEN "returned" ELSE "function"]
    /\ UNCHANGED <<mode, lexVars, parseVars, checkVars, pipe>>

RenderNext ==
    \/ BeginProgramme
    \/ BeginFunction
    \/ TranslateStep
    \/ TranslateOverrun
    \/ EndFunction

SpecRender == RenderInit /\ [][RenderNext]_vars

(***************************************************************************)
(* parse_statement on a statement that begins with an identifier: the      *)
(* identifier and at most MaxAfter further tokens of an alphabet, closed   *)
(* by the end-of-stream token, given to a parser that has or has not       *)
(* recorded an error before.                                               *)
(***************************************************************************)
AfterAlphabet ==
    {"TOKEN_IDENTIFIER", "TOKEN_NUMBER", "TOKEN_SEMICOLON", "TOKEN_COLON",
     "TOKEN_ASSIGN", "TOKEN_PLUS", "TOKEN_LPAREN", "TOKEN_RPAREN",
     "TOKEN_LBRACE", "TOKEN_RBRACE"}

AfterUpTo(n) == UNION {[1..k -> AfterAlphabet] : k \in 0..n}

\* A parser on the tokens that has or has not reported an error already.
ParserWith(tokens, had_error) ==
    IF had_error
    THEN error_at(parser_create(tokens), tokens[1], "Expected expression")
    ELSE parser_create(tokens)

StatementInit ==
    /\ mode = "statement"
    /\ \E after \in AfterUpTo(MaxAfter), had_error \in BOOLEAN :
          trial = [parser |-> ParserWith(
                       TokensOf(<<"TOKEN_IDENTIFIER">> \o after
                                    \o <<"TOKEN_EOF">>), had_error),
                   applied |-> FALSE, result |-> Null]
    /\ LexIdle
    /\ ParseIdle
    /\ CheckIdle
    /\ PipeIdle

\* parse_statement on the parser.
ParseStatement ==
    /\ mode = "statement"
    /\ ~trial.applied
    /\ trial' = [trial EXCEPT !.applied = TRUE,
                              !.result = Call("parse_statement", trial.parser)]
    /\ UNCHANGED <<mode, lexVars, parseVars, checkVars, pipe>>

SpecStatement == StatementInit /\ [][ParseStatement]_vars

(***************************************************************************)
(* Properties of the parser, checked under SpecParse.                      *)
(***************************************************************************)

\* C1: parse terminates: every iteration of the statement loops of
\* parse_block and of the switch body consumes at least one token or leaves
\* the loop (no iteration ends in the state it began in), and every
\* iteration of the function loop of parse consumes at least one token.
ParseLoopsProgress ==
    [][ParseStep => /\ ~parser'.hang
                    /\ parser'.current > parser.current]_vars

\* C2: the code that continues after a malformed construct never reads
\* through the null node returned for it.
NullNodeNeverDereferenced == mode = "parse" => ~parser.null_deref

\* C3: parse returns a Program tree if and only if it returns with no
\* diagnostic recorded during the whole parse: once any error_at call has
\* happened no tree is returned, and a parse that ends without one returns
\* the tree.
TreeIffNoDiagnostic ==
    mode = "parse" =>
        /\ tree # Null => ppc = "done" /\ parser.errors = <<>>
        /\ ppc = "done" => (tree # Null <=> parser.errors = <<>>)

\* parse has returned failure although a function of the file was parsed
\* and added to the Program, because a diagnostic was recorded elsewhere.
TreeDestroyedAfterDiagnostic ==
    /\ ppc = "done"
    /\ parser.errors # <<>>
    /\ program # <<>>
    /\ tree = Null


(***************************************************************************)
(* The tree of an expression, checked under SpecExpression.                *)
(***************************************************************************)

\* C17: for every error-free expression the tree built by parse_expression
\* is the tree the precedence ladder and the associativity give it: a
\* higher level binds tighter, assignment, compound assignment and ternary
\* group to the right, binary operators of one level group to the left.
ExpressionTreeFollowsLadder ==
    mode = "expression" /\ trial.applied =>
        /\ trial.node = trial.tree
        /\ ~trial.had_error
        /\ trial.at_end

\* a = a = a was parsed as a = (a = a).
AssignmentChainParsed ==
    /\ mode = "expression"
    /\ trial.applied
    /\ trial.text = "a = a = a"
    /\ trial.node = ast_create_assignment(ast_create_identifier("a"),
                        ast_create_assignment(ast_create_identifier("a"),
                                              ast_create_identifier("a")))

\* C25: a statement that begins with an identifier not followed by ':' is
\* parsed as the expression statement that starts at the identifier, from
\* the parser as it was before the lookahead (cursor, diagnostics and
\* had_error); one that begins with an identifier and ':' gives a Label
\* node of that name around the statement parsed after the colon.
LabelLookaheadRestores ==
    mode = "statement" /\ trial.applied =>
        LET p == trial.parser
            result == trial.result
        IN  IF p.tokens[2].type = "TOKEN_COLON"
            THEN LET stmt == Call("parse_statement",
                                  [p EXCEPT !.current = 2])
                 IN  /\ result.node.type = "NODE_LABEL"
                     /\ result.node.name = p.tokens[1].lexeme
                     /\ result.node.statement = stmt.node
                     /\ result.p = stmt.p
            ELSE LET expr == Call("parse_expression", p)
                 IN  /\ result.node = expr.node
                     /\ result.p = consume(expr.p, "TOKEN_SEMICOLON",
                                           "Expected ';' after expression").p

\* The statement x = 1; was parsed after an earlier error, as an
\* assignment and with no further diagnostic.
AssignmentParsedAfterLookahead ==
    /\ mode = "statement"
    /\ trial.applied
    /\ trial.parser.had_error
    /\ trial.result.node # Null
    /\ trial.result.node.type = "NODE_ASSIGNMENT"
    /\ trial.result.p.errors = trial.parser.errors
    /\ trial.result.p.current = 4

\* C28: on a token list that ends with the end-of-stream token the cursor
\* stays between 0 and the place of that token, advance never moves it
\* beyond, and previous is never evaluated with the cursor at 0.
CursorWithinTokens ==
    mode = "parse" /\ parser.tokens[parser.count].type = "TOKEN_EOF" =>
        /\ 0 <= parser.current
        /\ parser.current <= parser.count - 1
        /\ ~parser.past_eof
        /\ ~parser.before_first

\* parse reached the end-of-stream token of a list of eight tokens, by a
\* statement that begins with an identifier and so went through the label
\* lookahead.
CursorAtEndAfterLookahead ==
    /\ mode = "parse"
    /\ parser.count = 8
    /\ parser.current = 7
    /\ parser.tokens[6].type = "TOKEN_IDENTIFIER"
    /\ ~Halted(parser)
(***************************************************************************)
(* Properties of the tokenizer, checked under SpecLex.                     *)
(***************************************************************************)

\* C4: tokenize terminates for every source: an iteration of the skipping
\* loop moves the scan position forward or leaves the loop, the scan of a
\* token moves it forward or returns the end-of-stream token at the end of
\* the input, and the position never passes the end of the source; so the
\* position strictly increases between tokens until a terminal token ends
\* the loop, and no step is left to repeat for ever.
TokenizeTerminates ==
    [][/\ lpc' # "stuck"
       /\ lexer'.current <= lexer'.length
       /\ LexSkip => lexer'.current > lexer.current \/ lpc' = "scan"
       /\ LexScan => \/ lexer'.current > lexer.current
                     \/ /\ list'[Len(list')].type = "TOKEN_EOF"
                        /\ lexer.current = lexer.length
                        /\ lpc' = "done"]_vars

\* A source that opens with a preprocessor line was tokenized to the end
\* and gave a token besides the terminal one.
DirectiveSkippedAndTokenized ==
    /\ lpc = "done"
    /\ lexer.length >= 1
    /\ CharAt(lexer, 0) = "#"
    /\ Len(list) >= 2

\* C5: the token list holds no end-of-stream or error token before its last
\* element, and tokenize has finished exactly when the last element is one:
\* nothing is scanned or appended after an error token.
TerminalTokenIsLast ==
    mode = "lex" =>
        /\ \A i \in 1..(Len(list) - 1) :
              list[i].type \notin {"TOKEN_EOF", "TOKEN_ERROR"}
        /\ lpc = "done" <=>
              /\ list # <<>>
              /\ list[Len(list)].type \in {"TOKEN_EOF", "TOKEN_ERROR"}

\* tokenize stopped at an error token that follows another token, with
\* characters of the source left unread.
StoppedAtErrorBeforeEnd ==
    /\ lpc = "done"
    /\ Len(list) >= 2
    /\ list[Len(list)].type = "TOKEN_ERROR"
    /\ lexer.current < lexer.length


(***************************************************************************)
(* Properties of tokenize under insertion of text, checked under           *)
(* SpecInsert.                                                             *)
(***************************************************************************)

\* C13 as stated: inserting a run of spaces, tabs and newlines, or a
\* comment, between two adjacent tokens of a source that tokenizes without
\* error leaves the sequence of token kinds unchanged.
InsertionKeepsKinds ==
    mode = "insert" /\ trial.applied =>
        Kinds(trial.filled) = Kinds(trial.plain)

\* Whether the end of the text is outside every comment and directive
\* line: a character that starts no token, put there, is scanned.
InCode(text) == ~ErrorFree(tokenize(text \o "@"))

\* Whether the filler put after the text starts with the slash of a comment
\* directly after the token '/'; the two slashes then open a line comment.
SlashAfterSlash(left, filler) ==
    /\ SubSeq(left, Len(left), Len(left)) = "/"
    /\ SubSeq(filler, 1, 1) = "/"

\* C13, amended: at a place between two adjacent tokens that is outside
\* every comment and directive line, the kinds are unchanged by a run of
\* spaces, tabs and newlines, and by a block comment or a line comment with
\* its newline that does not directly follow the token '/'.
InsertionOutsideCommentsKeepsKinds ==
    /\ mode = "insert"
    /\ trial.applied
    /\ InCode(trial.left)
    /\ trial.filler \in WhitespaceFillers \cup CommentFillers
    /\ ~SlashAfterSlash(trial.left, trial.filler)
    => Kinds(trial.filled) = Kinds(trial.plain)

\* A block comment was inserted between two tokens and the kinds are the
\* same.
CommentInsertedBetweenTokens ==
    /\ mode = "insert"
    /\ trial.applied
    /\ trial.filler = "/* c */"
    /\ trial.left = "a"
    /\ trial.right = "="
    /\ Kinds(trial.filled) = <<"TOKEN_IDENTIFIER", "TOKEN_ASSIGN", "TOKEN_EOF">>
    /\ Kinds(trial.plain) = Kinds(trial.filled)

(***************************************************************************)
(* Properties of tokenize applied to its own lexemes, checked under        *)
(* SpecRoundTrip.                                                          *)
(***************************************************************************)

\* C14 as stated: for a source that tokenizes without error, the lexemes of
\* the tokens concatenated in order tokenize to the same sequence of token
\* kinds.
ConcatenatedLexemesRoundTrip ==
    mode = "roundtrip" /\ trial.applied /\ ErrorFree(trial.plain) =>
        Kinds(trial.joined) = Kinds(trial.plain)

\* C14, amended: for a source that tokenizes without error, the lexemes of
\* the tokens written in order with a space between them tokenize to the
\* same sequence of token kinds, and to the same lexemes.
SpacedLexemesRoundTrip ==
    mode = "roundtrip" /\ trial.applied /\ ErrorFree(trial.plain) =>
        /\ Kinds(trial.spaced) = Kinds(trial.plain)
        /\ Lexemes(trial.spaced) = Lexemes(trial.plain)

\* A source with a comment between two identifiers went round: spaced, its
\* lexemes give the two identifiers again; concatenated, they give one.
CommentedSourceWentRound ==
    /\ mode = "roundtrip"
    /\ trial.applied
    /\ trial.source = "a //c\nb"
    /\ Kinds(trial.plain) = <<"TOKEN_IDENTIFIER", "TOKEN_IDENTIFIER", "TOKEN_EOF">>
    /\ Kinds(trial.spaced) = Kinds(trial.plain)
    /\ Kinds(trial.joined) = <<"TOKEN_IDENTIFIER", "TOKEN_EOF">>

(***************************************************************************)
(* Properties of the scanning of operators and of literals, checked under  *)
(* SpecScan.                                                               *)
(***************************************************************************)

\* The operators and punctuation of one to three characters, each with its
\* token kind.
OperatorTable ==
    {<<"+", "TOKEN_PLUS">>, <<"++", "TOKEN_INCREMENT">>,
     <<"+=", "TOKEN_PLUS_ASSIGN">>, <<"-", "TOKEN_MINUS">>,
     <<"--", "TOKEN_DECREMENT">>, <<"->", "TOKEN_ARROW">>,
     <<"-=", "TOKEN_MINUS_ASSIGN">>, <<"*", "TOKEN_STAR">>,
     <<"*=", "TOKEN_STAR_ASSIGN">>, <<"/", "TOKEN_SLASH">>,
     <<"/=", "TOKEN_SLASH_ASSIGN">>, <<"%", "TOKEN_PERCENT">>,
     <<"%=", "TOKEN_PERCENT_ASSIGN">>, <<"=", "TOKEN_ASSIGN">>,
     <<"==", "TOKEN_EQ">>, <<"!", "TOKEN_NOT">>, <<"!=", "TOKEN_NE">>,
     <<"<", "TOKEN_LT">>, <<"<=", "TOKEN_LE">>, <<"<<", "TOKEN_SHL">>,
     <<"<<=", "TOKEN_SHL_ASSIGN">>, <<">", "TOKEN_GT">>,
     <<">=", "TOKEN_GE">>, <<">>", "TOKEN_SHR">>,
     <<">>=", "TOKEN_SHR_ASSIGN">>, <<"&", "TOKEN_AMPERSAND">>,
     <<"&&", "TOKEN_AND">>, <<"&=", "TOKEN_AND_ASSIGN">>,
     <<"|", "TOKEN_PIPE">>, <<"||", "TOKEN_OR">>,
     <<"|=", "TOKEN_OR_ASSIGN">>, <<"^", "TOKEN_CARET">>,
     <<"^=", "TOKEN_XOR_ASSIGN">>, <<"~", "TOKEN_TILDE">>,
     <<"?", "TOKEN_QUESTION">>, <<":", "TOKEN_COLON">>,
     <<".", "TOKEN_DOT">>, <<"(", "TOKEN_LPAREN">>, <<")", "TOKEN_RPAREN">>,
     <<"{", "TOKEN_LBRACE">>, <<"}", "TOKEN_RBRACE">>,
     <<"[", "TOKEN_LBRACKET">>, <<"]", "TOKEN_RBRACKET">>,
     <<";", "TOKEN_SEMICOLON">>, <<",", "TOKEN_COMMA">>}

IsPrefix(prefix, text) ==
    Len(prefix) <= Len(text) /\ SubSeq(text, 1, Len(prefix)) = prefix

\* The entries of the table that are a prefix of the text.
EntriesAt(text) == {entry \in OperatorTable : IsPrefix(entry[1], text)}

\* C15: every token of the list that starts at an operator character is the
\* longest entry of the operator table that is a prefix of the input from
\* there on, and a token that starts at a character starting no token is a
\* lexical-error token whose text is the diagnostic message.
OperatorsLongestMatch ==
    mode = "scan" /\ trial.applied /\ trial.text \in OperatorTexts =>
        \A i \in 1..Len(trial.tokens) :
            LET token == trial.tokens[i]
                rest == SubSeq(trial.text, token.column, Len(trial.text))
                first == IF rest = "" THEN "" ELSE SubSeq(rest, 1, 1)
            IN  /\ first \in OperatorStarts =>
                    \E entry \in EntriesAt(rest) :
                        /\ \A other \in EntriesAt(rest) :
                               Len(other[1]) <= Len(entry[1])
                        /\ token.lexeme = entry[1]
                        /\ token.type = entry[2]
                /\ first \in StartsNoToken =>
                    /\ token.type = "TOKEN_ERROR"
                    /\ token.lexeme = "Unexpected character: '" \o first \o "'"
                /\ token.type = "TOKEN_EOF" <=> rest = ""

\* The text <<= was scanned as one token.
ShiftAssignScannedWhole ==
    /\ mode = "scan"
    /\ trial.applied
    /\ trial.text = "<<="
    /\ Kinds(trial.tokens) = <<"TOKEN_SHL_ASSIGN", "TOKEN_EOF">>
    /\ trial.tokens[1].lexeme = "<<="

\* Whether the character at the position of a literal text is the one
\* skipped after a backslash: the one before it is a backslash that is not
\* itself skipped.
RECURSIVE Skipped(_, _)
Skipped(text, at) ==
    /\ at > 2
    /\ SubSeq(text, at - 1, at - 1) = "\\"
    /\ ~Skipped(text, at - 1)

\* The positions of the quotes that can close the literal the text opens.
Closers(text) ==
    {at \in 2..Len(text) :
        /\ SubSeq(text, at, at) = SubSeq(text, 1, 1)
        /\ ~Skipped(text, at)}

\* C16: a text that opens with a double quote gives a string token whose
\* lexeme runs from the opening quote to the first following double quote
\* that is not skipped after a backslash, both included; when there is no
\* such quote the token list is ended by a lexical-error token; and a text
\* that opens with a single quote gives a character-literal token in the
\* same way.
LiteralEndsAtFirstUnescapedQuote ==
    mode = "scan" /\ trial.applied /\ trial.text \in LiteralTexts =>
        LET text == trial.text
            last == trial.tokens[Len(trial.tokens)]
        IN  IF Closers(text) = {}
            THEN /\ Len(trial.tokens) = 1
                 /\ last.type = "TOKEN_ERROR"
                 /\ last.lexeme = IF SubSeq(text, 1, 1) = "\""
                                  THEN "Unterminated string"
                                  ELSE "Unterminated character literal"
            ELSE \E closer \in Closers(text) :
                    /\ \A other \in Closers(text) : closer <= other
                    /\ trial.tokens[1].type =
                           IF SubSeq(text, 1, 1) = "\"" THEN "TOKEN_STRING"
                           ELSE "TOKEN_CHAR_LITERAL"
                    /\ trial.tokens[1].lexeme = SubSeq(text, 1, closer)

\* A string literal holding an escaped quote was scanned up to the quote
\* after it.
EscapedQuoteInsideString ==
    /\ mode = "scan"
    /\ trial.applied
    /\ trial.text = "\"\\\"a\""
    /\ Len(trial.text) = 5
    /\ Kinds(trial.tokens) = <<"TOKEN_STRING", "TOKEN_EOF">>
    /\ trial.tokens[1].lexeme = trial.text
(***************************************************************************)
(* Properties of the check, under SpecCheck.  The operators below read a   *)
(* tree in full, as the claims speak of it, independently of the walk of   *)
(* the analyzer.                                                           *)
(***************************************************************************)
RECURSIVE StatementNodes(_), StatementNodesOfEach(_, _)

\* Every statement node in the statements from the i-th on.
StatementNodesOfEach(statements, i) ==
    IF i > Len(statements) THEN {}
    ELSE StatementNodes(statements[i])
             \cup StatementNodesOfEach(statements, i + 1)

\* Every statement node at or below a statement.
StatementNodes(node) ==
    IF node = Null THEN {}
    ELSE {node} \cup
         CASE node.type = "NODE_IF" ->
                StatementNodes(node.then_branch)
                    \cup StatementNodes(node.else_branch)
           [] node.type \in {"NODE_WHILE", "NODE_DO_WHILE"} ->
                StatementNodes(node.body)
           [] node.type = "NODE_FOR" ->
                StatementNodes(node.init) \cup StatementNodes(node.body)
           [] node.type = "NODE_BLOCK" ->
                StatementNodesOfEach(node.statements, 1)
           [] node.type = "NODE_LABEL" -> StatementNodes(node.statement)
           [] node.type = "NODE_SWITCH" ->
                UNION {StatementNodesOfEach(node.cases[i].statements, 1) :
                          i \in 1..Len(node.cases)}
           [] OTHER -> {}

\* C7: the check never stops early: the body of every function it is given
\* is analysed, and every statement node at or below a statement of a body
\* is visited.
CheckVisitsWholeTree ==
    [][/\ CheckFunction => cpc' = "body"
       /\ CheckStatement => StatementNodes(cnode') \subseteq analyzer'.visited
      ]_vars

RECURSIVE IdentifiersIn(_)

\* The names of the identifier references anywhere in an expression.
IdentifiersIn(node) ==
    IF node = Null THEN {}
    ELSE CASE node.type = "NODE_IDENTIFIER" -> {node.name}
           [] node.type = "NODE_BINARY_OP" ->
                IdentifiersIn(node.left) \cup IdentifiersIn(node.right)
           [] node.type = "NODE_UNARY_OP" -> IdentifiersIn(node.operand)
           [] node.type = "NODE_FUNCTION_CALL" ->
                UNION {IdentifiersIn(node.arguments[i]) :
                          i \in 1..Len(node.arguments)}
           [] node.type = "NODE_ARRAY_ACCESS" -> IdentifiersIn(node.index)
           [] node.type \in {"NODE_ASSIGNMENT", "NODE_COMPOUND_ASSIGN"} ->
                IdentifiersIn(node.target) \cup IdentifiersIn(node.value)
           [] node.type = "NODE_TERNARY" ->
                IdentifiersIn(node.condition) \cup IdentifiersIn(node.then_expr)
                    \cup IdentifiersIn(node.else_expr)
           [] node.type = "NODE_MEMBER_ACCESS" -> IdentifiersIn(node.object)
           [] node.type = "NODE_SIZEOF" -> IdentifiersIn(node.expression)
           [] OTHER -> {}

\* The expression of an expression statement or of a return statement: it
\* is evaluated in the scope the statement begins in.
ExpressionOf(statement) ==
    IF statement.type = "NODE_RETURN" THEN statement.value
    ELSE IF statement.type \in
                {"NODE_IDENTIFIER", "NODE_BINARY_OP", "NODE_UNARY_OP",
                 "NODE_FUNCTION_CALL", "NODE_ARRAY_ACCESS", "NODE_ASSIGNMENT",
                 "NODE_COMPOUND_ASSIGN", "NODE_TERNARY", "NODE_MEMBER_ACCESS",
                 "NODE_SIZEOF"}
    THEN statement
    ELSE Null

\* C8: every identifier reference anywhere in the expression of a statement
\* whose name is not found in the scope chain current -> global at that
\* point is reported as undeclared and makes the check fail.
UndeclaredReferencesDiagnosed ==
    [][CheckStatement =>
          \A name \in IdentifiersIn(ExpressionOf(cnode')) :
              symbol_table_lookup(analyzer.tables, current_scope(analyzer),
                                  name) = Null
                  => /\ Wrote(analyzer', "Undeclared variable '" \o name \o "'")
                     /\ analyzer'.had_error]_vars

RECURSIVE DeclarationsIn(_), DeclarationsInEach(_, _)

\* The declarations in the statements from the i-th on, in source order.
DeclarationsInEach(statements, i) ==
    IF i > Len(statements) THEN <<>>
    ELSE DeclarationsIn(statements[i]) \o DeclarationsInEach(statements, i + 1)

\* The local declarations at or below a statement, in source order.
DeclarationsIn(node) ==
    IF node = Null THEN <<>>
    ELSE CASE node.type = "NODE_DECLARATION" -> <<node>>
           [] node.type = "NODE_IF" ->
                DeclarationsIn(node.then_branch)
                    \o DeclarationsIn(node.else_branch)
           [] node.type \in {"NODE_WHILE", "NODE_DO_WHILE"} ->
                DeclarationsIn(node.body)
           [] node.type = "NODE_FOR" ->
                DeclarationsIn(node.init) \o DeclarationsIn(node.body)
           [] node.type = "NODE_BLOCK" -> DeclarationsInEach(node.statements, 1)
           [] node.type = "NODE_LABEL" -> DeclarationsIn(node.statement)
           [] OTHER -> <<>>

\* The names in the scope of the function being analysed.
ScopeNames(a) ==
    {a.tables[current_scope(a)].head[i].name :
        i \in 1..Len(a.tables[current_scope(a)].head)}

RECURSIVE DuplicatesAmong(_, _, _)

\* How many of the declarations from the i-th on name something that the
\* scope, or a declaration before them, holds already.
DuplicatesAmong(names, declarations, i) ==
    IF i > Len(declarations) THEN 0
    ELSE (IF declarations[i].name \in names THEN 1 ELSE 0)
         + DuplicatesAmong(names \cup {declarations[i].name}, declarations,
                           i + 1)

\* How many duplicate-declaration diagnostics the step wrote.
DuplicatesWritten(a) ==
    Cardinality({i \in 1..Len(a.stderr) :
        \E name \in Names :
            a.stderr[i].message
                = "Variable '" \o name \o "' already declared in this scope"})

\* C9: a local declaration is diagnosed as a duplicate exactly when its name
\* is in the scope of the function already, as a parameter or an earlier
\* local (a name of the global scope alone is shadowed silently); a flagged
\* declaration is not inserted and every other one is, once.
DuplicateIffInFunctionScope ==
    [][CheckStatement =>
          LET declarations == DeclarationsIn(cnode')
              duplicates == DuplicatesAmong(ScopeNames(analyzer),
                                            declarations, 1)
          IN  /\ DuplicatesWritten(analyzer') = duplicates
              /\ ScopeNames(analyzer') =
                     ScopeNames(analyzer)
                         \cup {declarations[i].name :
                                  i \in 1..Len(declarations)}
              /\ Len(analyzer'.tables[current_scope(analyzer')].head) =
                     Len(analyzer.tables[current_scope(analyzer)].head)
                         + Len(declarations) - duplicates]_vars

CalledIn(statement) ==
    {node.name : node \in {n \in Descendants(statement) :
                              n.type = "NODE_FUNCTION_CALL"}}

\* C11: a step diagnoses a name as an undefined function exactly when the
\* statement calls it somewhere and the name is neither in the global scope
\* nor in the allow-list, whatever the scope of the function holds; and
\* the identifiers in the arguments of every call are analysed.
UndefinedCallsDiagnosed ==
    [][CheckStatement =>
          /\ \A name \in Names \cup std_funcs :
                 Wrote(analyzer', "Undefined function '" \o name \o "'")
                     <=> /\ name \in CalledIn(cnode')
                         /\ symbol_table_lookup_local(
                                analyzer.tables[global_scope], name) = Null
                         /\ name \notin std_funcs
          /\ \A call \in {n \in Descendants(cnode') :
                               n.type = "NODE_FUNCTION_CALL"} :
                 \A name \in IdentifiersIn(call) :
                     symbol_table_lookup(analyzer.tables,
                                         current_scope(analyzer), name) = Null
                         => Wrote(analyzer',
                                  "Undeclared variable '" \o name \o "'")
      ]_vars

\* How many times the step wrote the message.
TimesWritten(a, message) ==
    Cardinality({i \in 1..Len(a.stderr) : a.stderr[i].message = message})

\* C12: for every array access anywhere in a statement, the step records
\* one undeclared-array diagnostic when the name is not found in the scope
\* chain, one not-an-array diagnostic when it is found and not marked array,
\* none when it is found and marked array, and in each case analyses the
\* index.
ArrayAccessesDiagnosed ==
    [][CheckStatement =>
          \A access \in {n \in Descendants(cnode') :
                            n.type = "NODE_ARRAY_ACCESS"} :
              LET symbol == symbol_table_lookup(analyzer.tables,
                                                current_scope(analyzer),
                                                access.name)
              IN  /\ TimesWritten(analyzer',
                                  "Undeclared array '" \o access.name \o "'")
                         = IF symbol = Null THEN 1 ELSE 0
                  /\ TimesWritten(analyzer',
                                  "'" \o access.name \o "' is not an array")
                         = IF symbol # Null /\ ~symbol.is_array THEN 1 ELSE 0
                  /\ \A name \in IdentifiersIn(access.index) :
                         symbol_table_lookup(analyzer.tables,
                                             current_scope(analyzer), name)
                                 = Null
                             => Wrote(analyzer',
                                      "Undeclared variable '" \o name \o "'")
      ]_vars

\* The names of the symbols of a table, in the order of its list.
SymbolNames(table) == [i \in 1..Len(table.head) |-> table.head[i].name]

\* C22: no table of the analyzer holds two symbols of one name.
NoScopeHoldsNameTwice ==
    mode = "check" =>
        \A t \in 1..Len(analyzer.tables) :
            \A i, j \in 1..Len(analyzer.tables[t].head) :
                SymbolNames(analyzer.tables[t])[i]
                    = SymbolNames(analyzer.tables[t])[j] => i = j

\* Whether the current scope of the analyzer is the global scope.
AtGlobalScope(a) == current_scope(a) = global_scope

\* Whether the current scope is a scope whose parent is the global scope.
InFunctionScope(a) ==
    /\ current_scope(a) # global_scope
    /\ a.tables[current_scope(a)].parent = global_scope

\* C23: the current scope is the global scope before and after the
\* analysis of a function, also when the function is declared already and
\* analyze_function returns at once; during the analysis it is a scope
\* whose parent is the global scope, which on entry holds the parameters
\* of the function and nothing else, so that a lookup then finds only
\* functions and these parameters.
ScopeStackDiscipline ==
    [][/\ mode = "check" /\ cpc # "body" => AtGlobalScope(analyzer)
       /\ mode = "check" /\ cpc' # "body" => AtGlobalScope(analyzer')
       /\ mode = "check" /\ cpc' = "body" => InFunctionScope(analyzer')
       /\ mode = "check" /\ cpc = "function" /\ cpc' = "body" =>
              /\ Len(analyzer'.tables[current_scope(analyzer')].head)
                     = Len(cnode'.parameters)
              /\ \A name \in Names :
                     LET symbol == symbol_table_lookup(analyzer'.tables,
                                       current_scope(analyzer'), name)
                     IN  \/ symbol = Null
                         \/ symbol.is_function
                         \/ \E i \in 1..Len(cnode'.parameters) :
                                /\ cnode'.parameters[i].name = name
                                /\ symbol.scope = cnode'.name]_vars

\* The second function is being analysed, the first has declared locals
\* in its own scope, and a reference to one of them in the second was
\* reported as undeclared.
SecondFunctionEntered ==
    /\ mode = "check"
    /\ cpc = "body"
    /\ nfuncs = 2
    /\ Len(analyzer.tables[global_scope].head) = 2
    /\ InFunctionScope(analyzer)
    /\ Wrote(analyzer, "Undeclared variable 'y'")

RECURSIVE BlockDeclarations(_), BlockDeclarationsEach(_, _)

BlockDeclarationsEach(statements, i) ==
    IF i > Len(statements) THEN <<>>
    ELSE BlockDeclarations(statements[i])
             \o BlockDeclarationsEach(statements, i + 1)

\* The declarations in the branches of an if, the body of a while, the
\* init clause and the body of a for, and the blocks in them, in source
\* order.
BlockDeclarations(node) ==
    IF node = Null THEN <<>>
    ELSE CASE node.type = "NODE_DECLARATION" -> <<node>>
           [] node.type = "NODE_IF" ->
                BlockDeclarations(node.then_branch)
                    \o BlockDeclarations(node.else_branch)
           [] node.type = "NODE_WHILE" -> BlockDeclarations(node.body)
           [] node.type = "NODE_FOR" ->
                BlockDeclarations(node.init) \o BlockDeclarations(node.body)
           [] node.type = "NODE_BLOCK" ->
                BlockDeclarationsEach(node.statements, 1)
           [] OTHER -> <<>>

\* C24: the analysis of an if, a while or a for opens no scope: the names
\* declared in its branches, body or init clause are in the scope of the
\* function afterwards, one of them that the scope held already is
\* diagnosed as a duplicate, and no later statement removes a name from
\* the scope or has a reference to one reported as undeclared.
BlocksOpenNoScope ==
    [][CheckStatement =>
          /\ current_scope(analyzer') = current_scope(analyzer)
          /\ ScopeNames(analyzer) \subseteq ScopeNames(analyzer')
          /\ \A name \in ScopeNames(analyzer) :
                 ~Wrote(analyzer', "Undeclared variable '" \o name \o "'")
          /\ cnode'.type \in {"NODE_IF", "NODE_WHILE", "NODE_FOR"} =>
                 LET declarations == BlockDeclarations(cnode') IN
                 /\ \A i \in 1..Len(declarations) :
                        declarations[i].name \in ScopeNames(analyzer')
                 /\ DuplicatesWritten(analyzer')
                        = DuplicatesAmong(ScopeNames(analyzer),
                                          declarations, 1)]_vars

\* The second of two for statements that each declare i in the init
\* clause was analysed and its declaration diagnosed as a duplicate.
SecondLoopCounterDiagnosed ==
    /\ mode = "check"
    /\ cpc = "body"
    /\ nstmts = 2
    /\ cnode.type = "NODE_FOR"
    /\ cnode.init.name = "i"
    /\ Wrote(analyzer, "Variable 'i' already declared in this scope")
(***************************************************************************)
(* Properties of the driver, under SpecCompile.                            *)
(***************************************************************************)

\* C6: the stages are called in the order read, tokenize, parse, check,
\* render, write, each only after every earlier one succeeded: parse is not
\* called on a token list that ends in a lexical error, check is not called
\* without a tree, render and write are not called for a program that fails
\* the check; the output is written only when all of them succeeded, and
\* compile returns 1 whenever a stage failed and 0 only when the write
\* succeeded.
StagesGated ==
    mode = "compile" =>
        /\ Len(pipe.ran) <= Len(Stages)
        /\ pipe.ran = SubSeq(Stages, 1, Len(pipe.ran))
        /\ \A i \in 1..(Len(pipe.ran) - 1) : pipe.ok[i]
        /\ (\E i \in 1..Len(pipe.ran) : pipe.ran[i] = "parse")
               => /\ pipe.tokens # <<>>
                  /\ pipe.tokens[Len(pipe.tokens)].type = "TOKEN_EOF"
        /\ (\E i \in 1..Len(pipe.ran) : pipe.ran[i] = "check")
               => pipe.ast # Null
        /\ (\E i \in 1..Len(pipe.ran) : pipe.ran[i] \in {"render", "write"})
               => analyze_semantics(pipe.ast)
        /\ pipe.written
               => /\ pipe.ran = Stages
                  /\ \A i \in 1..Len(pipe.ran) : pipe.ok[i]
                  /\ analyze_semantics(pipe.ast)
        /\ pipe.stage = "exited"
               => /\ pipe.exit_code \in {0, 1}
                  /\ pipe.exit_code = 1
                         <=> \E i \in 1..Len(pipe.ran) : ~pipe.ok[i]
                  /\ pipe.exit_code = 0 <=> pipe.written
        /\ pipe.stage # "exited" => pipe.exit_code = -1 /\ ~pipe.written

\* The program that declares x twice was stopped by the check: compile
\* returned 1 and nothing was rendered or written.
StoppedAtCheck ==
    /\ mode = "compile"
    /\ pipe.source = "int main(){int x;int x;return 0;}"
    /\ pipe.stage = "exited"
    /\ pipe.ran = <<"read", "tokenize", "parse", "check">>
    /\ pipe.exit_code = 1
    /\ ~pipe.written


\* The call names for which translate_function_call has a phrase of its
\* own.
PhraseNames ==
    {"printf", "strlen"} \cup {entry[1] : entry \in LibraryPhrases}

\* The names of the functions a Program defines.
DefinedNames(root) == {root.functions[i].name : i \in 1..Len(root.functions)}

\* C29: the check of a program reports no call of a name that has a phrase
\* of its own in the translator as undefined, unless the program defines a
\* function of that name.
DedicatedPhrasesAccepted ==
    [][Check =>
          \A name \in PhraseNames \ DefinedNames(pipe.ast) :
              ~Wrote(analyze_node(semantic_analyzer_create, pipe.ast),
                     "Undefined function '" \o name \o "'")]_vars
(***************************************************************************)
(* Properties of the translator, checked under SpecRender.                 *)
(***************************************************************************)

\* The statement a step translates, and the lines the step appends.
StepStatement == CurrentBody[trial.step]

StepLines ==
    SubSeq(trial'.ctx.output, Len(trial.ctx.output) + 1,
           Len(trial'.ctx.output))

StatementKinds ==
    {"NODE_DECLARATION", "NODE_IF", "NODE_WHILE", "NODE_FOR", "NODE_RETURN",
     "NODE_BREAK", "NODE_CONTINUE", "NODE_DO_WHILE", "NODE_SWITCH",
     "NODE_GOTO", "NODE_LABEL", "NODE_BLOCK"}

\* The phrase of an expression with its first letter in upper case.
Sentence(expression) ==
    CapitalizeFirst(translate_expression(expression)) \o "."

\* C18: a step that translates a bare-expression statement appends the
\* line of the step number and the phrase of the expression with its first
\* letter in upper case and a period, and the same statement translated
\* without a number gives the phrase alone in the same form.
BareExpressionCapitalized ==
    [][TranslateStep /\ StepStatement.type \notin StatementKinds =>
        /\ StepLines[1] = "  " \o Decimal(trial.step) \o ". "
                              \o Sentence(StepStatement)
        /\ translate_statement(translation_context_create, StepStatement,
                               0).output[1] = Sentence(StepStatement)]_vars

IsPrefix2(prefix, text) ==
    Len(prefix) <= Len(text) /\ SubSeq(text, 1, Len(prefix)) = prefix

\* Whether a line carries a number: its first character after the
\* indentation is a digit.
RECURSIVE Numbered(_)
Numbered(line) ==
    /\ line # ""
    /\ IF SubSeq(line, 1, 1) = " " THEN Numbered(SubSeq(line, 2, Len(line)))
       ELSE SubSeq(line, 1, 1) \in
                {"0", "1", "2", "3", "4", "5", "6", "7", "8", "9"}

StepNumber == "  " \o Decimal(trial.step) \o ". "

NestingKinds ==
    {"NODE_IF", "NODE_WHILE", "NODE_FOR", "NODE_DO_WHILE", "NODE_SWITCH"}

\* C19 as stated: the step for the i-th statement of a body appends a first
\* line that begins with 'i. ' unless the statement is a break or continue,
\* which carries no number, and after the first line of an if, while, for,
\* do-while or switch no line carries a number.
EveryStepNumbered ==
    [][TranslateStep =>
        /\ StepStatement.type \notin {"NODE_BREAK", "NODE_CONTINUE"} =>
               IsPrefix2(StepNumber, StepLines[1])
        /\ StepStatement.type \in {"NODE_BREAK", "NODE_CONTINUE"} =>
               \A i \in 1..Len(StepLines) : ~Numbered(StepLines[i])
        /\ StepStatement.type \in NestingKinds =>
               \A i \in 2..Len(StepLines) : ~Numbered(StepLines[i])]_vars

\* C19, amended: the same, except that a label, like break and continue,
\* carries no number, nor does the statement it labels, and that the
\* statements of a block that is itself a top-level statement are numbered
\* from 1 within the block, as the statements of a body are.
StepsNumberedButLabelAndBlock ==
    [][TranslateStep =>
        /\ StepStatement.type \notin
               {"NODE_BREAK", "NODE_CONTINUE", "NODE_LABEL", "NODE_BLOCK"} =>
               IsPrefix2(StepNumber, StepLines[1])
        /\ StepStatement.type \in
               {"NODE_BREAK", "NODE_CONTINUE", "NODE_LABEL"} =>
               \A i \in 1..Len(StepLines) : ~Numbered(StepLines[i])
        /\ StepStatement.type = "NODE_BLOCK" =>
               StepLines =
                   TranslateFrom([translation_context_create
                                     EXCEPT !.indent_level = 1],
                                 StepStatement.statements, 1, TRUE).output
        /\ StepStatement.type \in NestingKinds =>
               \A i \in 2..Len(StepLines) : ~Numbered(StepLines[i])]_vars

\* The second statement of a body, an if with two statements in its branch,
\* was translated: its heading carries the number 2 and the two statements
\* none.
SecondStepIfTranslated ==
    /\ mode = "render"
    /\ trial.pc = "steps"
    /\ trial.step = 3
    /\ CurrentBody[2].type = "NODE_IF"
    /\ \E i \in 1..Len(trial.ctx.output) :
          /\ trial.ctx.output[i] = "  2. If the condition \"'x'\" is true, then:"
          /\ trial.ctx.output[i + 1] = "    Call the 'g' function."
          /\ trial.ctx.output[i + 3] = "    Increment 'x' by 1."

\* Whether the part occurs in the text.
Contains(text, part) ==
    \E at \in 1..(Len(text) - Len(part) + 1) :
        SubSeq(text, at, at + Len(part) - 1) = part

\* The header line of a for statement after its clause I: the clauses C and
\* N, 'true' and 'nothing' when absent.
ForHeaderRest(node) ==
    ", and continuing whilst the condition \""
        \o (IF node.condition = Null THEN "true"
            ELSE translate_expression(node.condition))
        \o "\" holds, repeatedly perform the following operations, "
        \o "and after each iteration "
        \o (IF node.increment = Null THEN "nothing"
            ELSE translate_expression(node.increment))
        \o ":"

\* C20: the first line of a step that translates a for statement is
\* 'Beginning with I' followed by the rest of the header, where I is
\* 'nothing' for an absent init clause, the phrase of an init expression,
\* and for an init declaration a text that names the declared variable and
\* gives its initial value.
ForHeaderDescribesClauses ==
    [][TranslateStep /\ StepStatement.type = "NODE_FOR" =>
        LET node == StepStatement
            line == StepLines[1]
            opening == StepNumber \o "Beginning with "
            rest == ForHeaderRest(node)
            clause == SubSeq(line, Len(opening) + 1, Len(line) - Len(rest))
        IN  /\ IsPrefix2(opening, line)
            /\ SubSeq(line, Len(line) - Len(rest) + 1, Len(line)) = rest
            /\ IF node.init = Null THEN clause = "nothing"
               ELSE IF node.init.type = "NODE_DECLARATION"
               THEN /\ Contains(clause, "'" \o node.init.name \o "'")
                    /\ node.init.initializer # Null =>
                           Contains(clause, node.init.initializer.value)
               ELSE clause = translate_expression(node.init)]_vars

\* The positions of the function headings in an output, the first line of
\* the k-th section and the lines of the k-th section.
HeadingsAt(output) ==
    {i \in 1..Len(output) : IsPrefix2("Function: ", output[i])}

SectionStart(output, k) ==
    CHOOSE i \in HeadingsAt(output) :
        Cardinality({j \in HeadingsAt(output) : j <= i}) = k

Section(output, k) ==
    SubSeq(output, SectionStart(output, k),
           IF k = Cardinality(HeadingsAt(output)) THEN Len(output)
           ELSE SectionStart(output, k + 1) - 1)

\* Whether a section is the section of a function: its heading, its
\* description by the number of parameters, the listing of two or more
\* parameters in order, the sentence for main, and no numbered line for an
\* empty body.
SectionOf(section, node) ==
    LET count == Len(node.parameters)
        lines == {section[i] : i \in 1..Len(section)}
    IN  /\ section[1] = "Function: " \o node.name
        /\ Contains(section[3], "returns a value of type " \o node.return_type)
        /\ count = 0 => Contains(section[3], "accepts no parameters")
        /\ count = 1 =>
               /\ Contains(section[3], "one parameter named '"
                                           \o node.parameters[1].name \o "'")
               /\ Contains(section[3], "of type " \o node.parameters[1].type)
        /\ count > 1 =>
               /\ Contains(section[3], "accepts " \o Decimal(count)
                                           \o " parameters")
               /\ section[5] = "Parameters:"
               /\ \A i \in 1..count :
                      /\ Contains(section[5 + i],
                                  "'" \o node.parameters[i].name \o "'")
                      /\ Contains(section[5 + i], node.parameters[i].type)
               /\ section[6 + count] = ""
        /\ count <= 1 => "Parameters:" \notin lines
        /\ "This is the main entry point of the programme." \in lines
               <=> node.name = "main"
        /\ "The function performs the following steps:" \in lines
        /\ node.body.statements = <<>> =>
               \A i \in 1..Len(section) : ~Numbered(section[i])

\* C21: the translation of a programme holds one section for each of its
\* functions, in the order of the functions, and the section of a function
\* describes it by its number of parameters, lists two or more parameters
\* in order, holds the sentence for main exactly for the function named
\* main, and for an empty body holds its text and no numbered step.
OneSectionPerFunction ==
    mode = "render" /\ trial.pc = "returned" /\ trial.program # Null =>
        LET functions == trial.program.functions
            output == trial.ctx.output
        IN  /\ Cardinality(HeadingsAt(output)) = Len(functions)
            /\ \A k \in 1..Len(functions) :
                   SectionOf(Section(output, k), functions[k])
            /\ output = translate_to_english(trial.program)

\* A programme of three functions, main first with an empty body, was
\* translated, and a function of three parameters was.
ThreeSectionsTranslated ==
    /\ mode = "render"
    /\ trial.pc = "returned"
    /\ trial.program # Null
    /\ Len(trial.program.functions) = 3
    /\ Section(trial.ctx.output, 1)[1] = "Function: main"
    /\ Section(trial.ctx.output, 2)[1] = "Function: a"
    /\ Section(trial.ctx.output, 3)[1] = "Function: g"

\* The levels at which a nested statement is translated.
Levels == 0..3

\* The places of translate_to_english outside the steps of a body.
Outside == {"programme", "function", "returned"}

\* C27: the indent level is never negative, is 0 outside the steps of a
\* body and 1 between them; the translation of a top-level statement, and
\* of every statement at or below it from any level, leaves the level as
\* it found it, and every line of a step is indented by one level at
\* least.
IndentationBalanced ==
    [][/\ mode = "render" =>
              /\ trial.ctx.indent_level >= 0
              /\ trial.pc \in Outside => trial.ctx.indent_level = 0
              /\ trial.pc = "steps" /\ HasBlockBody(CurrentFunction) =>
                     trial.ctx.indent_level = 1
              /\ trial'.ctx.indent_level >= 0
              /\ trial'.pc \in Outside => trial'.ctx.indent_level = 0
       /\ TranslateStep =>
              /\ trial'.ctx.indent_level = trial.ctx.indent_level
              /\ \A i \in 1..Len(StepLines) : IsPrefix2("  ", StepLines[i])
              /\ \A node \in Descendants(StepStatement), level \in Levels :
                     translate_statement(
                         [translation_context_create
                             EXCEPT !.indent_level = level],
                         node, 0).indent_level = level]_vars

\* A switch was translated as the first step: the statement of its case
\* is indented by three levels and the level is 1 again.
SwitchTranslatedAndLevelRestored ==
    /\ mode = "render"
    /\ trial.pc = "steps"
    /\ trial.step = 2
    /\ CurrentBody[1].type = "NODE_SWITCH"
    /\ trial.ctx.indent_level = 1
    /\ \E i \in 1..Len(trial.ctx.output) :
          trial.ctx.output[i] = "      Call the 'g' function."

\* C30: in the translation of a statement the joined text of the arguments
\* of every call without a phrase of its own is at most 1023 characters
\* long, so that it fits args_str with its terminating NUL.
ArgumentTextFitsBuffer ==
    [][TranslateStep \/ TranslateOverrun =>
          \A call \in Descendants(StepStatement) :
              (/\ call.type = "NODE_FUNCTION_CALL"
               /\ call.name \notin PhraseNames
               /\ Len(call.arguments) > 0) =>
                  Len(JoinArguments(call.arguments, 1)) <= ARGS_STR_SIZE - 1]_vars

(***************************************************************************)
(* Properties of the nodes of a tree returned by parse, under SpecParse.   *)
(***************************************************************************)

\* Every node of a Program: the Program, its functions and the nodes of
\* their bodies.
NodesOf(root) ==
    {root} \cup
    UNION {{root.functions[i]} \cup Descendants(root.functions[i].body) :
              i \in 1..Len(root.functions)}

\* C26: every node of a tree returned by parse carries a line and a column
\* of the source, both at least 1.
ReturnedNodesCarryPosition ==
    mode = "parse" /\ ppc = "done" /\ tree # Null =>
        \A node \in NodesOf(tree) : node.line >= 1 /\ node.column >= 1
=============================================================================
